---- MODULE Spec2Model ----
(***************************************************************************)
(* A model of sqlplot-tools: the line buffer (textlines.h), the string     *)
(* helpers (strtools.h), the LaTeX directive scanner and its processors    *)
(* (latex.cpp), the driver that writes the document back (main.cpp) and    *)
(* the Gnuplot plot-clause rewrite (gnuplot.cpp).                          *)
(*                                                                         *)
(* Lines and commands are TLA+ strings, read character by character with   *)
(* SubSeq, so that the scanning and the regular expressions of the code    *)
(* act on the same bytes as the program does.  Positions are 0-based as in *)
(* the C++ source; the line vector is a TLA+ sequence, so line(i) is       *)
(* lines[i+1].                                                             *)
(***************************************************************************)
EXTENDS Integers, Sequences, FiniteSets, TLC

(***************************************************************************)
(* std::string primitives                                                  *)
(***************************************************************************)

\* std::string::npos
npos == -1

\* the terminating character a std::string yields at index size()
NUL == "\\0"

\* str[i]
At(str, i) == IF i >= 0 /\ i < Len(str) THEN SubSeq(str, i + 1, i + 1) ELSE NUL

\* str.substr(pos)
substr(str, pos) == SubSeq(str, pos + 1, Len(str))

\* str.substr(pos, n)
substr_n(str, pos, n) ==
    SubSeq(str, pos + 1, IF pos + n > Len(str) THEN Len(str) ELSE pos + n)

\* isblank(3)
isblank(c) == c \in {" ", "\t"}

\* std::string(n, ' ')
RECURSIVE spaces(_)
spaces(n) == IF n <= 0 THEN "" ELSE " " \o spaces(n - 1)

\* str.find_first_not_of(drop, pos)
RECURSIVE find_first_not_of(_, _, _)
find_first_not_of(str, drop, pos) ==
    IF pos = npos \/ pos >= Len(str) THEN npos
    ELSE IF At(str, pos) \in drop THEN find_first_not_of(str, drop, pos + 1)
    ELSE pos

\* str.find_first_of(keep, pos)
RECURSIVE find_first_of(_, _, _)
find_first_of(str, keep, pos) ==
    IF pos = npos \/ pos >= Len(str) THEN npos
    ELSE IF At(str, pos) \in keep THEN pos
    ELSE find_first_of(str, keep, pos + 1)

\* str.find_last_not_of(drop), searched downwards from pos
RECURSIVE find_last_not_of(_, _, _)
find_last_not_of(str, drop, pos) ==
    IF pos < 0 THEN npos
    ELSE IF At(str, pos) \in drop THEN find_last_not_of(str, drop, pos - 1)
    ELSE pos

\* whether needle occurs in str at position pos
starts_at(str, needle, pos) ==
    /\ pos >= 0
    /\ pos + Len(needle) <= Len(str)
    /\ SubSeq(str, pos + 1, pos + Len(needle)) = needle

\* str.find(needle, pos)
RECURSIVE find(_, _, _)
find(str, needle, pos) ==
    IF pos + Len(needle) > Len(str) THEN npos
    ELSE IF starts_at(str, needle, pos) THEN pos
    ELSE find(str, needle, pos + 1)

\* str.rfind(needle, pos): the last occurrence starting at or before pos
RECURSIVE rfind(_, _, _)
rfind(str, needle, pos) ==
    IF pos < 0 THEN npos
    ELSE IF starts_at(str, needle, pos) THEN pos
    ELSE rfind(str, needle, pos - 1)

(***************************************************************************)
(* strtools.h                                                              *)
(***************************************************************************)

\* trim(str, drop = " ")
trim(str) ==
    LET pos1 == find_first_not_of(str, {" "}, 0)
        pos2 == find_last_not_of(str, {" "}, Len(str) - 1)
    IN  IF pos1 = npos THEN ""
        ELSE IF pos2 = npos THEN ""
        ELSE substr_n(str, pos1, pos2 - pos1 + 1)

\* is_prefix(str, match)
is_prefix(str, match) ==
    IF Len(match) > Len(str) THEN FALSE ELSE starts_at(str, match, 0)

\* is_suffix(str, match)
is_suffix(str, match) ==
    IF Len(match) > Len(str) THEN FALSE
    ELSE starts_at(str, match, Len(str) - Len(match))

\* the default width of shorten()
ShortenWidth == 80

\* a shorten() that keeps width characters before the dots
shorten_kept(str) ==
    IF Len(str) > ShortenWidth
    THEN substr_n(str, 0, ShortenWidth) \o "..."
    ELSE str

\* shorten(str, width = 80)
shorten(str) ==
    IF Len(str) > ShortenWidth
    THEN substr_n(str, 0, ShortenWidth - 3) \o "..."
    ELSE str

\* replace_all(str, needle, instead)
RECURSIVE replace_all_from(_, _, _, _)
replace_all_from(newstr, needle, instead, lastpos) ==
    LET thispos == find(newstr, needle, lastpos)
    IN  IF thispos = npos THEN newstr
        ELSE replace_all_from(
                 substr_n(newstr, 0, thispos) \o instead
                     \o substr(newstr, thispos + Len(needle)),
                 needle, instead, thispos + Len(instead))

replace_all(str, needle, instead) == replace_all_from(str, needle, instead, 0)

\* split(str, sep), without a limit
RECURSIVE split_from(_, _, _, _, _)
split_from(str, sep, it, last, out) ==
    IF it >= Len(str)
    THEN IF last # it THEN Append(out, SubSeq(str, last + 1, it)) ELSE out
    ELSE IF At(str, it) = sep
         THEN split_from(str, sep, it + 1, it + 1,
                         Append(out, SubSeq(str, last + 1, it)))
         ELSE split_from(str, sep, it + 1, last, out)

split(str, sep) == split_from(str, sep, 0, 0, <<>>)

\* trim_inplace_ws(str): on a string a two-sided trim of ' '
trim_inplace_ws(str) ==
    LET pos == find_last_not_of(str, {" "}, Len(str) - 1)
    IN  IF pos = npos THEN ""
        ELSE LET cut == substr_n(str, 0, pos + 1)
                 first == find_first_not_of(cut, {" "}, 0)
             IN  IF first = npos THEN cut ELSE substr(cut, first)

(***************************************************************************)
(* textlines.h: class TextLines                                            *)
(***************************************************************************)

\* the line at 0-based index i
line(lines, i) == lines[i + 1]

\* the index of the first non-blank character of a line
RECURSIVE skip_blank(_, _)
skip_blank(str, i) == IF isblank(At(str, i)) THEN skip_blank(str, i + 1) ELSE i

\* is_comment_line<CommentChar>(line, rep): index of the comment character,
\* or -1 when the line is no comment
is_comment_line(CommentChar, str, rep) ==
    LET i == skip_blank(str, 0)
    IN  IF \E r \in 0..(rep - 1) : At(str, i + r) # CommentChar THEN -1 ELSE i

\* a faulty replace that erases one line less than [begin,end)
replace_short_erase(lines, begin, end, content) ==
    SubSeq(lines, 1, begin) \o content
        \o SubSeq(lines, IF end > begin THEN end ELSE end + 1, Len(lines))

\* replace(begin, end, content, desc): erase [begin,end), insert content
replace(lines, begin, end, content) ==
    SubSeq(lines, 1, begin) \o content \o SubSeq(lines, end + 1, Len(lines))

\* the message replace() logs before it splices
replace_log(begin, end, desc) ==
    IF begin = end
    THEN [what |-> "Inserting", begin |-> begin, end |-> end, desc |-> desc]
    ELSE [what |-> "Replace", begin |-> begin, end |-> end, desc |-> desc]

\* replace(begin, end, indent, content vector, desc)
replace_indent(lines, begin, end, indent, content) ==
    IF indent = 0 THEN replace(lines, begin, end, content)
    ELSE replace(lines, begin, end,
                 [si \in 1..Len(content) |-> spaces(indent) \o content[si]])

\* the lines std::getline reads from a string, each prefixed by the indent
RECURSIVE getlines(_, _, _, _)
getlines(content, indent, pos, clist) ==
    IF pos >= Len(content) THEN clist
    ELSE LET nl == find(content, "\n", pos)
         IN  IF nl = npos
             THEN Append(clist, spaces(indent) \o substr(content, pos))
             ELSE getlines(content, indent, nl + 1,
                      Append(clist,
                             spaces(indent) \o substr_n(content, pos, nl - pos)))

\* replace(begin, end, indent, content string, desc)
replace_string(lines, begin, end, indent, content) ==
    replace(lines, begin, end, getlines(content, indent, 0, <<>>))

\* scan_for_comment<CommentChar>(ln, cprefix)
RECURSIVE next_comment(_, _, _)
next_comment(CommentChar, lines, cln) ==
    IF cln < Len(lines) /\ is_comment_line(CommentChar, line(lines, cln), 1) < 0
    THEN next_comment(CommentChar, lines, cln + 1)
    ELSE cln

\* a faulty scan_for_comment that takes the next comment line whatever its
\* text
scan_for_comment_any(CommentChar, lines, ln, cprefix) ==
    IF next_comment(CommentChar, lines, ln) >= Len(lines) THEN -1
    ELSE next_comment(CommentChar, lines, ln)

scan_for_comment(CommentChar, lines, ln, cprefix) ==
    LET cln == next_comment(CommentChar, lines, ln)
    IN  IF cln >= Len(lines) THEN -1
        ELSE LET comment ==
                     trim(substr(line(lines, cln),
                          is_comment_line(CommentChar, line(lines, cln), 1) + 1))
             IN  IF is_prefix(comment, cprefix) THEN cln ELSE -1

\* the lines of a multi-line command: those at the same indent with a doubled
\* comment character, each losing its two-character prefix
RECURSIVE collect_more(_, _, _, _, _)
collect_more(CommentChar, lines, ln, indent, cmd) ==
    IF ln < Len(lines) /\ is_comment_line(CommentChar, line(lines, ln), 2) = indent
    THEN collect_more(CommentChar, lines, ln + 1, indent,
                      cmd \o substr(line(lines, ln), indent + 2))
    ELSE [ln |-> ln, cmd |-> cmd]

\* collect_comment<CommentChar>(ln, out_cmd, out_indent): the result, the
\* advanced ln and the two out-parameters
\* a faulty collect_comment that takes the line of a doubled comment
\* character alone
collect_comment_single(CommentChar, lines, ln) ==
    LET indent == is_comment_line(CommentChar, line(lines, ln), 1)
    IN  IF indent < 0
        THEN [ok |-> FALSE, ln |-> ln + 1, cmd |-> "", indent |-> 0]
        ELSE LET cmd == substr(line(lines, ln), indent + 1)
             IN  [ok |-> TRUE, ln |-> ln + 1,
                  cmd |-> trim(IF At(cmd, 0) = CommentChar
                               THEN substr(cmd, 1) ELSE cmd),
                  indent |-> indent]

collect_comment(CommentChar, lines, ln) ==
    LET indent == is_comment_line(CommentChar, line(lines, ln), 1)
    IN  IF indent < 0
        THEN [ok |-> FALSE, ln |-> ln + 1, cmd |-> "", indent |-> 0]
        ELSE LET cmd == substr(line(lines, ln), indent + 1)
             IN  IF At(cmd, 0) = CommentChar
                 THEN LET m == collect_more(CommentChar, lines, ln + 1, indent,
                                            substr(cmd, 1))
                      IN  [ok |-> TRUE, ln |-> m.ln, cmd |-> trim(m.cmd),
                           indent |-> indent]
                 ELSE [ok |-> TRUE, ln |-> ln + 1, cmd |-> trim(cmd),
                       indent |-> indent]

(***************************************************************************)
(* sql.h, sql.cpp: a query result.  The database holds one table t with    *)
(* the columns g, x, y; a cell is a NULL flag and a text.                  *)
(***************************************************************************)

\* the query texts the database answers; every other statement is an SQL error
QueryAll == "SELECT * FROM t"
QueryNoY == "SELECT g,x FROM t"
QueryG == "SELECT g FROM t"
QueryNoX == "SELECT g,y FROM t"
QueryX == "SELECT x FROM t"
QueryWhere ==
    "SELECT * FROM t WHERE 1 = 1 AND 1 = 1 AND 1 = 1 AND 1 = 1 AND 1 = 1"
QueryLong == QueryWhere \o " AND 1 = 1 AND 1 = 1"

\* g_db->query(query): the result, or the exception of a failed statement
SqlQuery(table, query) ==
    IF query \in {QueryAll, QueryWhere, QueryLong}
    THEN [ok |-> TRUE, cols |-> <<"g", "x", "y">>, rows |-> table]
    ELSE IF query = QueryNoY
    THEN [ok |-> TRUE, cols |-> <<"g", "x">>,
          rows |-> [i \in 1..Len(table) |-> SubSeq(table[i], 1, 2)]]
    ELSE IF query = QueryG
    THEN [ok |-> TRUE, cols |-> <<"g">>,
          rows |-> [i \in 1..Len(table) |-> SubSeq(table[i], 1, 1)]]
    ELSE IF query = QueryNoX
    THEN [ok |-> TRUE, cols |-> <<"g", "y">>,
          rows |-> [i \in 1..Len(table) |-> <<table[i][1], table[i][3]>>]]
    ELSE IF query = QueryX
    THEN [ok |-> TRUE, cols |-> <<"x">>,
          rows |-> [i \in 1..Len(table) |-> SubSeq(table[i], 2, 2)]]
    ELSE [ok |-> FALSE, cols |-> <<>>, rows |-> <<>>]

\* num_cols(), num_rows() of a complete result
num_cols(sql) == Len(sql.cols)
num_rows(sql) == Len(sql.rows)

\* col_name(col)
col_name(sql, col) == sql.cols[col + 1]

\* exist_col(name), after read_colmap()
exist_col(sql, name) == \E c \in 1..Len(sql.cols) : sql.cols[c] = name

\* find_col(name), after read_colmap(): std::map keeps the last index stored
find_col(sql, name) ==
    CHOOSE c \in 0..(Len(sql.cols) - 1) :
        /\ sql.cols[c + 1] = name
        /\ \A d \in (c + 1)..(Len(sql.cols) - 1) : sql.cols[d + 1] # name

\* isNULL(row, col) and text(row, col); the text of a NULL cell is empty
isNULL(sql, row, col) == sql.rows[row + 1][col + 1].isnull
text(sql, row, col) ==
    IF sql.rows[row + 1][col + 1].isnull THEN ""
    ELSE sql.rows[row + 1][col + 1].text

\* str_is_double(text): whether the text parses completely as a number
str_is_double(str) ==
    /\ Len(str) > 0
    /\ \A i \in 0..(Len(str) - 1) :
           At(str, i) \in {"0", "1", "2", "3", "4", "5", "6", "7", "8", "9"}

\* str_reduce(text): the text without its blanks
RECURSIVE str_reduce(_)
str_reduce(str) ==
    IF Len(str) = 0 THEN ""
    ELSE IF isblank(At(str, 0)) THEN str_reduce(substr(str, 1))
    ELSE At(str, 0) \o str_reduce(substr(str, 1))

\* escape_latex(text): the special characters of LaTeX behind a backslash
RECURSIVE escape_latex(_)
escape_latex(str) ==
    IF Len(str) = 0 THEN ""
    ELSE IF At(str, 0) \in {"_", "%", "&", "#", "$", "{", "}"}
    THEN "\\" \o At(str, 0) \o escape_latex(substr(str, 1))
    ELSE At(str, 0) \o escape_latex(substr(str, 1))

\* the larger of two sizes
max(a, b) == IF a > b THEN a ELSE b

\* os << std::setw(w) << std::right << str, and << std::left
setw_right(str, w) == spaces(w - Len(str)) \o str
setw_left(str, w) == str \o spaces(w - Len(str))

\* std::string(n, '-')
RECURSIVE dashes(_)
dashes(n) == IF n <= 0 THEN "" ELSE "-" \o dashes(n - 1)

\* format_texttable(): width of a column, header and cells
RECURSIVE texttable_width(_, _, _, _)
texttable_width(sql, col, row, w) ==
    IF row >= num_rows(sql) THEN w
    ELSE texttable_width(sql, col, row + 1, max(w, Len(text(sql, row, col))))

\* format_texttable(): whether all cells of a column are numbers
texttable_is_number(sql, col) ==
    \A row \in 0..(num_rows(sql) - 1) : str_is_double(text(sql, row, col))

\* format_texttable(): the header/middle/footer break line
RECURSIVE texttable_break(_, _, _)
texttable_break(sql, width, col) ==
    IF col >= num_cols(sql) THEN "+\n"
    ELSE (IF col # 0 THEN "+-" ELSE "") \o dashes(width[col + 1] + 1)
             \o texttable_break(sql, width, col + 1)

\* format_texttable(): the header line
RECURSIVE texttable_header(_, _, _)
texttable_header(sql, width, col) ==
    IF col >= num_cols(sql) THEN "|\n"
    ELSE (IF col # 0 THEN "| " ELSE "")
             \o setw_right(col_name(sql, col), width[col + 1]) \o " "
             \o texttable_header(sql, width, col + 1)

\* format_texttable(): one data line
RECURSIVE texttable_row(_, _, _, _)
texttable_row(sql, width, row, col) ==
    IF col >= num_cols(sql) THEN "|\n"
    ELSE (IF col # 0 THEN "| " ELSE "")
             \o (IF texttable_is_number(sql, col)
                 THEN setw_right(text(sql, row, col), width[col + 1])
                 ELSE setw_left(text(sql, row, col), width[col + 1]))
             \o " " \o texttable_row(sql, width, row, col + 1)

RECURSIVE texttable_rows(_, _, _)
texttable_rows(sql, width, row) ==
    IF row >= num_rows(sql) THEN ""
    ELSE "| " \o texttable_row(sql, width, row, 0)
             \o texttable_rows(sql, width, row + 1)

\* SqlQueryImpl::format_texttable()
format_texttable(sql) ==
    LET width == [c \in 1..num_cols(sql) |->
                     texttable_width(sql, c - 1, 0, Len(col_name(sql, c - 1)))]
        obreak == "+-" \o texttable_break(sql, width, 0)
    IN  obreak \o "| " \o texttable_header(sql, width, 0) \o obreak
            \o texttable_rows(sql, width, 0) \o obreak

(***************************************************************************)
(* latex.cpp: the processors of class SpLatex.  A processor yields the new *)
(* line vector and the message its replace() logged, or the exception      *)
(* (OUT_THROW) or the failed assertion that ended it.                      *)
(***************************************************************************)

\* SpLatex::comment_char
comment_char == "%"

Spliced(newlines, log) ==
    [thrown |-> FALSE, asserted |-> FALSE, lines |-> newlines, log |-> log]
Thrown(lines) ==
    [thrown |-> TRUE, asserted |-> FALSE, lines |-> lines,
     log |-> [what |-> "error", begin |-> 0, end |-> 0, desc |-> ""]]
AssertFailed(lines) ==
    [thrown |-> FALSE, asserted |-> TRUE, lines |-> lines,
     log |-> [what |-> "assert", begin |-> 0, end |-> 0, desc |-> ""]]

NoMatch == [ok |-> FALSE, m1 |-> "", m2 |-> ""]

\* SpLatex::texttable(ln, indent, cmdline)
texttable(lines, table, ln, indent, cmdline) ==
    LET sql == SqlQuery(table, cmdline)
    IN  IF ~sql.ok THEN Thrown(lines)
        ELSE LET output == format_texttable(sql)
                               \o shorten("% END TEXTTABLE " \o cmdline) \o "\n"
                 eln == scan_for_comment(comment_char, lines, ln, "END TEXTTABLE")
             IN  IF eln < 0
                 THEN Spliced(replace_string(lines, ln, ln, indent, output),
                              replace_log(ln, ln, "TEXTTABLE"))
                 ELSE Spliced(replace_string(lines, ln, eln + 1, indent, output),
                              replace_log(ln, eln + 1, "TEXTTABLE"))

\* the regular expressions re_addplot of plot() (semicolon = FALSE:
\*   [[:blank:]]*(\\addplot.*coordinates \{)[^}]+(\}[^;]*;.*) )
\* and of multiplot() (semicolon = TRUE:
\*   [[:blank:]]*(\\addplot.*coordinates \{)[^}]+(\};.*) ).
\* The greedy .* takes the last "coordinates {" after which the rest matches.
RECURSIVE re_addplot_at(_, _, _, _)
re_addplot_at(str, b, p, semicolon) ==
    IF p < b + Len("\\addplot") THEN NoMatch
    ELSE LET open == p + Len("coordinates {")
             close == find(str, "}", open)
             fits == /\ starts_at(str, "coordinates {", p)
                     /\ close # npos
                     /\ close > open
                     /\ IF semicolon THEN At(str, close + 1) = ";"
                        ELSE find(str, ";", close + 1) # npos
         IN  IF fits
             THEN [ok |-> TRUE, m1 |-> substr_n(str, b, open - b),
                   m2 |-> substr(str, close)]
             ELSE re_addplot_at(str, b, p - 1, semicolon)

re_addplot(str, semicolon) ==
    LET b == skip_blank(str, 0)
    IN  IF starts_at(str, "\\addplot", b)
        THEN re_addplot_at(str, b, Len(str), semicolon)
        ELSE NoMatch

\* a faulty re_legend that matches no line
re_legend_never(str) == NoMatch

\* the regular expression re_legend of multiplot():
\*   [[:blank:]]*(\\addlegendentry\{).*(\};.*)
re_legend(str) ==
    LET b == skip_blank(str, 0)
        open == b + Len("\\addlegendentry{")
        close == rfind(str, "};", Len(str))
    IN  IF starts_at(str, "\\addlegendentry{", b) /\ close # npos /\ close >= open
        THEN [ok |-> TRUE, m1 |-> "\\addlegendentry{", m2 |-> substr(str, close)]
        ELSE NoMatch

\* plot(): the columns of one row, comma separated
RECURSIVE plot_row(_, _, _)
plot_row(sql, row, col) ==
    IF col >= num_cols(sql) THEN ""
    ELSE (IF col # 0 THEN "," ELSE "") \o str_reduce(text(sql, row, col))
             \o plot_row(sql, row, col + 1)

\* plot(): the coordinates of all rows, in the order step() yields them
RECURSIVE plot_coords(_, _)
plot_coords(sql, row) ==
    IF row >= num_rows(sql) THEN ""
    ELSE " (" \o plot_row(sql, row, 0) \o ")" \o plot_coords(sql, row + 1)

\* a faulty plot that writes the replaced line anew, without the styles
plot_unstyled(lines, table, ln, indent, cmdline) ==
    LET sql == SqlQuery(table, cmdline)
        rm == IF ln < Len(lines) THEN re_addplot(line(lines, ln), FALSE)
              ELSE NoMatch
    IN  IF ~sql.ok THEN Thrown(lines)
        ELSE Spliced(replace_string(lines, ln, IF rm.ok THEN ln + 1 ELSE ln,
                         indent,
                         "\\addplot coordinates {" \o plot_coords(sql, 0) \o " };"),
                     replace_log(ln, IF rm.ok THEN ln + 1 ELSE ln, "PLOT"))

\* SpLatex::plot(ln, indent, cmdline)
plot(lines, table, ln, indent, cmdline) ==
    LET sql == SqlQuery(table, cmdline)
    IN  IF ~sql.ok THEN Thrown(lines)
        ELSE LET oss == plot_coords(sql, 0)
                 rm == IF ln < Len(lines) THEN re_addplot(line(lines, ln), FALSE)
                       ELSE NoMatch
             IN  IF rm.ok
                 THEN Spliced(replace_string(lines, ln, ln + 1, indent,
                                             rm.m1 \o oss \o " " \o rm.m2),
                              replace_log(ln, ln + 1, "PLOT"))
                 ELSE Spliced(replace_string(lines, ln, ln, indent,
                                  "\\addplot coordinates {" \o oss \o " };"),
                              replace_log(ln, ln, "PLOT"))

\* multiplot(): the regular expression re_multiplot, MULTIPLOT\(([^)]+)\) (.+)
re_multiplot(cmdline) ==
    LET open == Len("MULTIPLOT(")
        close == find(cmdline, ")", open)
    IN  IF /\ is_prefix(cmdline, "MULTIPLOT(")
           /\ close # npos
           /\ close > open
           /\ At(cmdline, close + 1) = " "
           /\ Len(cmdline) > close + 2
        THEN [ok |-> TRUE, m1 |-> substr_n(cmdline, open, close - open),
              m2 |-> substr(cmdline, close + 2)]
        ELSE NoMatch

\* multiplot(): the group fields, trimmed, the |title or |ptitle mark removed
multiplot_fields(multiplot) ==
    LET fields == [i \in 1..Len(split(multiplot, ",")) |->
                      trim_inplace_ws(split(multiplot, ",")[i])]
        n == Len(fields)
    IN  IF n > 0 /\ is_suffix(fields[n], "|title")
        THEN [fields |-> [fields EXCEPT ![n] = substr_n(@, 0, Len(@) - 6)],
              multiplot |-> substr_n(multiplot, 0, Len(multiplot) - 6),
              title_mark |-> TRUE, ptitle_mark |-> FALSE]
        ELSE IF n > 0 /\ is_suffix(fields[n], "|ptitle")
        THEN [fields |-> [fields EXCEPT ![n] = substr_n(@, 0, Len(@) - 7)],
              multiplot |-> substr_n(multiplot, 0, Len(multiplot) - 7),
              title_mark |-> FALSE, ptitle_mark |-> TRUE]
        ELSE [fields |-> fields, multiplot |-> multiplot,
              title_mark |-> FALSE, ptitle_mark |-> FALSE]

\* multiplot(): the legend "field=value,..." of a group
RECURSIVE multiplot_legend(_, _, _)
multiplot_legend(groupfields, rowgroup, i) ==
    IF i >= Len(rowgroup) THEN ""
    ELSE (IF i # 0 THEN "," ELSE "")
             \o escape_latex(groupfields[i + 1]) \o "="
             \o escape_latex(rowgroup[i + 1])
             \o multiplot_legend(groupfields, rowgroup, i + 1)

\* multiplot(): the coordinates of one row
multiplot_coord(sql, c, row) ==
    " (" \o str_reduce(text(sql, row, c.col_x)) \o ","
         \o str_reduce(text(sql, row, c.col_y)) \o ")"
         \o (IF c.xerr \/ c.yerr
             THEN " +- ("
                  \o (IF c.xerr THEN str_reduce(text(sql, row, c.col_xerr)) ELSE "0")
                  \o ","
                  \o (IF c.yerr THEN str_reduce(text(sql, row, c.col_yerr)) ELSE "0")
                  \o ")"
             ELSE "")

\* multiplot(): the loop over sql->step() that collects the coordinate
\* groups and their legends; row is current_row()
RECURSIVE multiplot_collect(_, _, _, _, _, _, _)
multiplot_collect(sql, c, row, lastgroup, coord, coordlist, legendlist) ==
    IF row >= num_rows(sql)
    THEN [coordlist |-> IF Len(coord) > 0 THEN Append(coordlist, coord)
                        ELSE coordlist,
          legendlist |-> legendlist]
    ELSE IF isNULL(sql, row, c.col_x) \/ isNULL(sql, row, c.col_y)
    THEN multiplot_collect(sql, c, row + 1, lastgroup, coord, coordlist,
                           legendlist)
    ELSE LET rowgroup == [i \in 1..Len(c.groupcols) |->
                             text(sql, row, c.groupcols[i])]
         IN  IF row = 0 \/ lastgroup # rowgroup
             THEN multiplot_collect(sql, c, row + 1, rowgroup,
                      multiplot_coord(sql, c, row),
                      IF row # 0 THEN Append(coordlist, coord) ELSE coordlist,
                      Append(legendlist,
                             IF c.title_mark
                             THEN escape_latex(text(sql, row, c.col_title))
                             ELSE IF c.ptitle_mark
                             THEN text(sql, row, c.col_title)
                             ELSE multiplot_legend(c.groupfields, rowgroup, 0)))
             ELSE multiplot_collect(sql, c, row + 1, lastgroup,
                      coord \o multiplot_coord(sql, c, row),
                      coordlist, legendlist)

\* multiplot(): the loop over the existing \addplot lines, which copies
\* their styles, and the loop that appends the missing pairs
RECURSIVE multiplot_append(_, _, _, _)
multiplot_append(coordlist, legendlist, entry, out) ==
    IF entry >= Len(coordlist) THEN out
    ELSE multiplot_append(coordlist, legendlist, entry + 1,
             out \o "\\addplot coordinates {" \o coordlist[entry + 1] \o " };\n"
                 \o "\\addlegendentry{" \o legendlist[entry + 1] \o "};\n")

RECURSIVE multiplot_merge(_, _, _, _, _, _)
multiplot_merge(lines, coordlist, legendlist, eln, entry, out) ==
    LET rm == IF eln < Len(lines) THEN re_addplot(line(lines, eln), TRUE)
              ELSE NoMatch
        rl == IF eln + 1 < Len(lines) THEN re_legend(line(lines, eln + 1))
              ELSE NoMatch
    IN  IF ~rm.ok
        THEN [eln |-> eln,
              out |-> multiplot_append(coordlist, legendlist, entry, out)]
        ELSE IF entry < Len(coordlist)
        THEN LET styled == out \o rm.m1 \o coordlist[entry + 1] \o " "
                               \o rm.m2 \o "\n"
             IN  IF rl.ok
                 THEN multiplot_merge(lines, coordlist, legendlist, eln + 2,
                          entry + 1,
                          styled \o rl.m1 \o legendlist[entry + 1] \o rl.m2
                                 \o "\n")
                 ELSE multiplot_merge(lines, coordlist, legendlist, eln + 1,
                          entry + 1,
                          styled \o "\\addlegendentry{" \o legendlist[entry + 1]
                                 \o "};\n")
        ELSE multiplot_merge(lines, coordlist, legendlist,
                 IF rl.ok THEN eln + 2 ELSE eln + 1, entry, out)

\* multiplot(): the columns looked up after read_colmap()
multiplot_columns(sql, f) ==
    [col_x |-> find_col(sql, "x"), col_y |-> find_col(sql, "y"),
     xerr |-> exist_col(sql, "xerr"), yerr |-> exist_col(sql, "yerr"),
     col_xerr |-> IF exist_col(sql, "xerr") THEN find_col(sql, "xerr") ELSE -1,
     col_yerr |-> IF exist_col(sql, "yerr") THEN find_col(sql, "yerr") ELSE -1,
     title_mark |-> f.title_mark, ptitle_mark |-> f.ptitle_mark,
     col_title |-> IF f.ptitle_mark THEN find_col(sql, "ptitle")
                   ELSE IF f.title_mark THEN find_col(sql, "title") ELSE 0,
     groupfields |-> f.fields,
     groupcols |-> [i \in 1..Len(f.fields) |-> find_col(sql, f.fields[i])]]

\* multiplot(): the groups collected from the result
multiplot_groups(sql, f) ==
    multiplot_collect(sql, multiplot_columns(sql, f), 0, <<>>, "", <<>>, <<>>)

\* a faulty multiplot that removes the old \addplot lines before it looks
\* for the columns
multiplot_erase_first(lines, table, ln, indent, cmdline) ==
    LET rm == re_multiplot(cmdline)
        f == multiplot_fields(rm.m1)
        sql == SqlQuery(table, replace_all(rm.m2, "MULTIPLOT", f.multiplot))
        old == multiplot_merge(lines, <<>>, <<>>, ln, 0, "")
        erased == replace_string(lines, ln, old.eln, indent, "")
    IN  IF ~rm.ok THEN Thrown(lines)
        ELSE IF ~sql.ok THEN Thrown(lines)
        ELSE IF ~exist_col(sql, "x") \/ ~exist_col(sql, "y") THEN Thrown(erased)
        ELSE IF f.title_mark /\ ~exist_col(sql, "title") THEN Thrown(erased)
        ELSE IF f.ptitle_mark /\ ~exist_col(sql, "ptitle") THEN Thrown(erased)
        ELSE IF \E i \in 1..Len(f.fields) : ~exist_col(sql, f.fields[i])
        THEN Thrown(erased)
        ELSE LET g == multiplot_groups(sql, f)
                 m == multiplot_merge(lines, g.coordlist, g.legendlist, ln, 0, "")
             IN  IF Len(g.coordlist) # Len(g.legendlist)
                 THEN AssertFailed(lines)
                 ELSE Spliced(replace_string(lines, ln, m.eln, indent, m.out),
                              replace_log(ln, m.eln, "MULTIPLOT"))

\* SpLatex::multiplot(ln, indent, cmdline)
multiplot(lines, table, ln, indent, cmdline) ==
    LET rm == re_multiplot(cmdline)
        f == multiplot_fields(rm.m1)
        sql == SqlQuery(table, replace_all(rm.m2, "MULTIPLOT", f.multiplot))
    IN  IF ~rm.ok THEN Thrown(lines)
        ELSE IF ~sql.ok THEN Thrown(lines)
        ELSE IF ~exist_col(sql, "x") \/ ~exist_col(sql, "y") THEN Thrown(lines)
        ELSE IF f.title_mark /\ ~exist_col(sql, "title") THEN Thrown(lines)
        ELSE IF f.ptitle_mark /\ ~exist_col(sql, "ptitle") THEN Thrown(lines)
        ELSE IF \E i \in 1..Len(f.fields) : ~exist_col(sql, f.fields[i])
        THEN Thrown(lines)
        ELSE LET g == multiplot_groups(sql, f)
                 m == multiplot_merge(lines, g.coordlist, g.legendlist, ln, 0, "")
             IN  IF Len(g.coordlist) # Len(g.legendlist)
                 THEN AssertFailed(lines)
                 ELSE Spliced(replace_string(lines, ln, m.eln, indent, m.out),
                              replace_log(ln, m.eln, "MULTIPLOT"))

\* Reformat::format(row, col, text) of a Reformat without a REFORMAT clause:
\* a number loses the grouping commas, every other text stays
reformat_format(str) ==
    IF Len(str) = 0 THEN str
    ELSE IF str_is_double(str) THEN replace_all(str, ",", "")
    ELSE str

\* defmacro(): the regular expression re_defmacro,
\*   [[:blank:]]*\\def\\[^{]+\{[^}]+\}.*
re_defmacro(str) ==
    LET b == skip_blank(str, 0)
        open == find(str, "{", b + Len("\\def\\"))
        close == find(str, "}", open + 1)
    IN  /\ starts_at(str, "\\def\\", b)
        /\ open # npos
        /\ open > b + Len("\\def\\")
        /\ close # npos
        /\ close > open + 1

\* defmacro(): one \def per column, for every row of the result
RECURSIVE defmacro_cols(_, _)
defmacro_cols(sql, col) ==
    IF col >= num_cols(sql) THEN ""
    ELSE (IF col # 0 THEN "\n" ELSE "")
             \o "\\def\\" \o str_reduce(col_name(sql, col)) \o "{"
             \o reformat_format(text(sql, 0, col)) \o "}"
             \o defmacro_cols(sql, col + 1)

RECURSIVE defmacro_rows(_, _)
defmacro_rows(sql, row) ==
    IF row >= num_rows(sql) THEN ""
    ELSE defmacro_cols(sql, 0) \o defmacro_rows(sql, row + 1)

\* defmacro(): the lines after ln that hold \def commands
RECURSIVE defmacro_gobble(_, _)
defmacro_gobble(lines, eln) ==
    IF eln < Len(lines) /\ re_defmacro(line(lines, eln))
    THEN defmacro_gobble(lines, eln + 1)
    ELSE eln

\* SpLatex::defmacro(ln, indent, cmdline), the query without REFORMAT clause
defmacro(lines, table, ln, indent, cmdline) ==
    LET sql == SqlQuery(table, cmdline)
    IN  IF ~sql.ok THEN Thrown(lines)
        ELSE LET eln == defmacro_gobble(lines, ln)
             IN  Spliced(replace_string(lines, ln, eln, indent,
                                        defmacro_rows(sql, 0)),
                         replace_log(ln, eln, "DEFMACRO"))

(***************************************************************************)
(* reformat.h, reformat.cpp: class Reformat.  A double is held as the      *)
(* integer Scale * v; the numbers of the model have at most DecimalDigits  *)
(* decimals and a fraction that is a multiple of 1/8 whenever they are      *)
(* rounded on output, so they are exact as doubles.                        *)
(***************************************************************************)

\* pow(10, n) for n >= 0
RECURSIVE pow10(_)
pow10(n) == IF n <= 0 THEN 1 ELSE 10 * pow10(n - 1)

\* the decimals the model keeps of a double, and the factor they need
DecimalDigits == 3
Scale == pow10(DecimalDigits)

\* std::numeric_limits<double>::max(), above every value of the model
DblMax == 2000000000

\* std::numeric_limits<double>::min(), the smallest positive double: no value
\* of the model lies between zero and it, so v > DblMin exactly when v > 0
DblMin == 0

\* isdigit(c), isalnum(c)
isdigit(c) == c \in {"0", "1", "2", "3", "4", "5", "6", "7", "8", "9"}
isalnum(c) ==
    \/ isdigit(c)
    \/ c \in {"a", "b", "c", "d", "e", "f", "g", "h", "i", "j", "k", "l", "m",
              "n", "o", "p", "q", "r", "s", "t", "u", "v", "w", "x", "y", "z",
              "A", "B", "C", "D", "E", "F", "G", "H", "I", "J", "K", "L", "M",
              "N", "O", "P", "Q", "R", "S", "T", "U", "V", "W", "X", "Y", "Z"}

\* the value of a digit and of a string of digits
digit_value(c) == CHOOSE d \in 0..9 : ToString(d) = c
RECURSIVE digits_value(_, _)
digits_value(str, acc) ==
    IF Len(str) = 0 THEN acc
    ELSE digits_value(substr(str, 1), 10 * acc + digit_value(At(str, 0)))

\* the end of the digits that start at a position
RECURSIVE skip_digits(_, _)
skip_digits(str, i) == IF isdigit(At(str, i)) THEN skip_digits(str, i + 1) ELSE i

\* from_str(str, unsigned&): a string of digits and nothing else
from_str_unsigned(str) ==
    IF Len(str) > 0 /\ skip_digits(str, 0) = Len(str)
    THEN [ok |-> TRUE, value |-> digits_value(str, 0)]
    ELSE [ok |-> FALSE, value |-> 0]

\* from_str(str, int&): a sign, digits and nothing else
from_str_int(str) ==
    LET neg == At(str, 0) = "-"
        num == from_str_unsigned(IF neg THEN substr(str, 1) ELSE str)
    IN  [ok |-> num.ok, value |-> IF neg THEN 0 - num.value ELSE num.value]

\* from_str(str, double&): a sign, digits, a point and decimals, nothing else
from_str_double(str) ==
    LET neg == At(str, 0) = "-"
        b == IF neg THEN 1 ELSE 0
        e == skip_digits(str, b)
        point == At(str, e) = "."
        f == IF point THEN skip_digits(str, e + 1) ELSE e
        decimals == IF point THEN substr_n(str, e + 1, f - e - 1) ELSE ""
        kept == substr_n(decimals \o "000", 0, DecimalDigits)
        whole == digits_value(substr_n(str, b, e - b), 0)
        v == Scale * whole + digits_value(kept, 0)
    IN  IF f = Len(str) /\ (e > b \/ Len(decimals) > 0)
        THEN [ok |-> TRUE, value |-> IF neg THEN 0 - v ELSE v]
        ELSE [ok |-> FALSE, value |-> 0]

\* Reformat::Line::Line(), Reformat::Cell::Cell(): the sentinels
NewLine ==
    [m_escape |-> FALSE, m_round |-> "RD_UNDEF", m_round_digits |-> -1,
     m_reformat_precision |-> -1, m_reformat_width |-> -1,
     m_reformat_digits |-> -1, m_grouping |-> "",
     m_min_format |-> "MF_UNDEF", m_max_format |-> "MF_UNDEF",
     m_min_value |-> DblMax, m_max_value |-> DblMin,
     m_min_text |-> "", m_max_text |-> ""]

\* Reformat::parse_keyword(curr, end, key)
RECURSIVE skip_alnum(_, _)
skip_alnum(str, i) == IF isalnum(At(str, i)) THEN skip_alnum(str, i + 1) ELSE i

parse_keyword(str, curr) ==
    LET ckey == skip_blank(str, curr)
        stop == skip_alnum(str, ckey)
    IN  IF curr >= Len(str) \/ ckey >= Len(str)
        THEN [ok |-> FALSE, key |-> "", curr |-> ckey]
        ELSE [ok |-> TRUE, key |-> substr_n(str, ckey, stop - ckey),
              curr |-> stop]

\* Reformat::parse_keyargument(curr, end)
RECURSIVE skip_argument(_, _)
skip_argument(str, i) ==
    IF i < Len(str) /\ At(str, i) # "=" /\ At(str, i) # "("
    THEN skip_argument(str, i + 1) ELSE i

parse_keyargument(str, curr) ==
    LET ckey == skip_blank(str, curr)
        stop == skip_argument(str, ckey)
    IN  IF curr >= Len(str) \/ ckey >= Len(str)
        THEN [arg |-> "", curr |-> ckey]
        ELSE [arg |-> substr_n(str, ckey, stop - ckey), curr |-> stop]

\* the loop that collects text until the balanced closing parenthesis: the
\* position of that parenthesis, or the end of the string
RECURSIVE balanced_end(_, _, _)
balanced_end(str, i, depth) ==
    IF i >= Len(str) THEN i
    ELSE IF At(str, i) = "(" THEN balanced_end(str, i + 1, depth + 1)
    ELSE IF At(str, i) = ")" /\ depth = 0 THEN i
    ELSE IF At(str, i) = ")" THEN balanced_end(str, i + 1, depth - 1)
    ELSE balanced_end(str, i + 1, depth)

\* the end of the text before the next blank
RECURSIVE skip_nonblank(_, _)
skip_nonblank(str, i) ==
    IF i < Len(str) /\ ~isblank(At(str, i))
    THEN skip_nonblank(str, i + 1) ELSE i

\* parse_keyvalue(): the value in parentheses or up to the next blank
keyvalue_at(str, curr) ==
    IF At(str, curr) = "("
    THEN LET stop == balanced_end(str, curr + 1, 0)
         IN  IF stop >= Len(str)
             THEN [ok |-> TRUE, thrown |-> TRUE, value |-> "", curr |-> stop]
             ELSE [ok |-> TRUE, thrown |-> FALSE,
                   value |-> substr_n(str, curr + 1, stop - curr - 1),
                   curr |-> stop + 1]
    ELSE LET stop == skip_nonblank(str, curr)
         IN  [ok |-> TRUE, thrown |-> FALSE,
              value |-> substr_n(str, curr, stop - curr), curr |-> stop]

\* Reformat::parse_keyvalue(curr, end): " value", " (values)", "=value" or
\* "=(values)"
parse_keyvalue(str, curr) ==
    LET first == skip_blank(str, curr)
    IN  IF curr >= Len(str) \/ first >= Len(str)
        THEN [ok |-> TRUE, thrown |-> FALSE, value |-> "", curr |-> first]
        ELSE IF At(str, first) = "="
        THEN keyvalue_at(str, skip_blank(str, first + 1))
        ELSE keyvalue_at(str, first)

\* Reformat::parse_keyvalue(curr, end, value): "=value" or "=(values)"
parse_keyvalue_given(str, curr) ==
    LET first == skip_blank(str, curr)
    IN  IF curr >= Len(str) \/ first >= Len(str) \/ At(str, first) # "="
        THEN [ok |-> FALSE, thrown |-> FALSE, value |-> "", curr |-> first]
        ELSE keyvalue_at(str, skip_blank(str, first + 1))

\* Reformat::parse_numbers(text): "3,4-7,10-11" as a set of numbers
RECURSIVE parse_numbers_from(_, _, _)
parse_numbers_from(str, c, out) ==
    IF c >= Len(str) THEN [thrown |-> FALSE, out |-> out]
    ELSE LET c1 == skip_blank(str, c)
             e1 == skip_digits(str, c1)
             i1 == from_str_unsigned(substr_n(str, c1, e1 - c1))
             s1 == skip_blank(str, e1)
         IN  IF ~i1.ok THEN [thrown |-> TRUE, out |-> out]
             ELSE IF s1 >= Len(str)
             THEN [thrown |-> FALSE, out |-> out \cup {i1.value}]
             ELSE IF At(str, s1) = ","
             THEN parse_numbers_from(str, s1 + 1, out \cup {i1.value})
             ELSE IF At(str, s1) = "-"
             THEN LET c2 == skip_blank(str, s1 + 1)
                      e2 == skip_digits(str, c2)
                      i2 == from_str_unsigned(substr_n(str, c2, e2 - c2))
                      s2 == skip_blank(str, e2)
                  IN  IF ~i2.ok THEN [thrown |-> TRUE, out |-> out]
                      ELSE IF s2 >= Len(str) \/ At(str, s2) = ","
                      THEN IF i1.value > i2.value
                           THEN [thrown |-> TRUE, out |-> out]
                           ELSE parse_numbers_from(
                                    str,
                                    IF s2 < Len(str) THEN s2 + 1 ELSE s2,
                                    out \cup (i1.value)..(i2.value))
                      ELSE [thrown |-> TRUE, out |-> out]
             ELSE [thrown |-> TRUE, out |-> out]

parse_numbers(str) == parse_numbers_from(str, 0, {})

\* the outcome of parsing one key: the format and the position reached
Parsed(fmt, curr) == [thrown |-> FALSE, fmt |-> fmt, curr |-> curr]
ParseThrown(fmt, curr) == [thrown |-> TRUE, fmt |-> fmt, curr |-> curr]

\* Cell::parse_keyformat(): the value of round, precision, width, digits
Cell_parse_number(fmt, key, kv, num) ==
    IF kv.thrown THEN ParseThrown(fmt, kv.curr)
    ELSE IF key = "round" /\ kv.value = "floor"
    THEN Parsed([fmt EXCEPT !.m_round = "RD_FLOOR"], kv.curr)
    ELSE IF key = "round" /\ kv.value = "ceil"
    THEN Parsed([fmt EXCEPT !.m_round = "RD_CEIL"], kv.curr)
    ELSE IF ~num.ok THEN ParseThrown(fmt, kv.curr)
    ELSE IF key = "round"
    THEN Parsed([fmt EXCEPT !.m_round = "RD_ROUND",
                            !.m_round_digits = num.value], kv.curr)
    ELSE IF key = "precision"
    THEN Parsed([fmt EXCEPT !.m_reformat_precision = num.value], kv.curr)
    ELSE IF key = "width"
    THEN Parsed([fmt EXCEPT !.m_reformat_width = num.value], kv.curr)
    ELSE Parsed([fmt EXCEPT !.m_reformat_digits = num.value], kv.curr)

Cell_parse_value(fmt, key, kv) ==
    Cell_parse_number(fmt, key, kv, from_str_int(kv.value))

\* Cell::parse_keyformat(): the separator of group, "," without a value
Cell_parse_group(fmt, kv) ==
    IF kv.thrown THEN ParseThrown(fmt, kv.curr)
    ELSE Parsed([fmt EXCEPT !.m_grouping = IF kv.ok THEN kv.value ELSE ","],
                kv.curr)

\* Reformat::Cell::parse_keyformat(key, curr, end)
Cell_parse_keyformat(fmt, key, str, curr) ==
    IF key = "floor" THEN Parsed([fmt EXCEPT !.m_round = "RD_FLOOR"], curr)
    ELSE IF key = "ceil" THEN Parsed([fmt EXCEPT !.m_round = "RD_CEIL"], curr)
    ELSE IF key \in {"round", "precision", "width", "digits"}
    THEN Cell_parse_value(fmt, key, parse_keyvalue(str, curr))
    ELSE IF key = "group"
    THEN Cell_parse_group(fmt, parse_keyvalue_given(str, curr))
    ELSE ParseThrown(fmt, curr)

\* Reformat::Cell::apply(c)
Cell_apply(fmt, c) ==
    LET r1 == IF c.m_round # "RD_UNDEF"
              THEN [fmt EXCEPT !.m_round = c.m_round,
                               !.m_round_digits = c.m_round_digits]
              ELSE fmt
        r2 == IF c.m_reformat_precision >= 0
              THEN [r1 EXCEPT !.m_reformat_precision = c.m_reformat_precision]
              ELSE r1
        r3 == IF c.m_reformat_width >= 0
              THEN [r2 EXCEPT !.m_reformat_width = c.m_reformat_width]
              ELSE r2
        r4 == IF c.m_reformat_digits >= 0
              THEN [r3 EXCEPT !.m_reformat_digits = c.m_reformat_digits]
              ELSE r3
    IN  IF Len(c.m_grouping) > 0
        THEN [r4 EXCEPT !.m_grouping = c.m_grouping]
        ELSE r4

\* Reformat::Line::readdata()
Line_readdata(fmt) ==
    \/ fmt.m_min_format \in {"MF_BOLD", "MF_EMPH"}
    \/ fmt.m_max_format \in {"MF_BOLD", "MF_EMPH"}

\* Reformat::Line::parse_minmax(key, value); MF_UNDEF stands for the throw
parse_minmax(value) ==
    IF value = "" THEN "MF_NONE"
    ELSE IF value = "bold" \/ value = "bf" THEN "MF_BOLD"
    ELSE IF value = "emph" \/ value = "em" THEN "MF_EMPH"
    ELSE "MF_UNDEF"

\* Line::parse_keyformat(): the style of min, minimum, max, maximum
Line_parse_style(fmt, key, kv) ==
    IF kv.thrown \/ parse_minmax(kv.value) = "MF_UNDEF"
    THEN ParseThrown(fmt, kv.curr)
    ELSE IF key = "min" \/ key = "minimum"
    THEN Parsed([fmt EXCEPT !.m_min_format = parse_minmax(kv.value)], kv.curr)
    ELSE Parsed([fmt EXCEPT !.m_max_format = parse_minmax(kv.value)], kv.curr)

\* Reformat::Line::parse_keyformat(key, curr, end)
Line_parse_keyformat(fmt, key, str, curr) ==
    IF key \in {"min", "minimum", "max", "maximum"}
    THEN Line_parse_style(fmt, key, parse_keyvalue(str, curr))
    ELSE Cell_parse_keyformat(fmt, key, str, curr)

\* Reformat::Line::parse_format(format): the loop over the keys
RECURSIVE Line_parse_format_from(_, _, _)
Line_parse_format_next(str, done) ==
    IF done.thrown THEN done
    ELSE Line_parse_format_from(done.fmt, str, done.curr)

Line_parse_format_key(fmt, str, kw) ==
    IF ~kw.ok THEN Parsed(fmt, kw.curr)
    ELSE Line_parse_format_next(
             str, Line_parse_keyformat(fmt, kw.key, str, kw.curr))

Line_parse_format_from(fmt, str, curr) ==
    Line_parse_format_key(fmt, str, parse_keyword(str, curr))

Line_parse_format(str) == Line_parse_format_from(NewLine, str, 0)

\* Reformat::Line::apply(c)
Line_apply(fmt, c) ==
    LET r1 == IF c.m_min_format # "MF_UNDEF"
              THEN [fmt EXCEPT !.m_min_format = c.m_min_format,
                               !.m_min_value = c.m_min_value,
                               !.m_min_text = c.m_min_text]
              ELSE fmt
        r2 == IF c.m_max_format # "MF_UNDEF"
              THEN [r1 EXCEPT !.m_max_format = c.m_max_format,
                              !.m_max_value = c.m_max_value,
                              !.m_max_text = c.m_max_text]
              ELSE r1
    IN  Cell_apply(r2, c)

\* std::map<unsigned, Line>: operator[] makes a missing entry
NoLines == [n \in {} |-> NewLine]
linefmt_at(map, n) == IF n \in DOMAIN map THEN map[n] ELSE NewLine
linefmt_put(map, n, fmt) ==
    [k \in DOMAIN map \cup {n} |-> IF k = n THEN fmt ELSE map[k]]
linefmt_apply(map, numbers, fmt) ==
    [k \in DOMAIN map \cup numbers |->
        IF k \in numbers THEN Line_apply(linefmt_at(map, k), fmt) ELSE map[k]]

\* Reformat::Reformat(): no row format, no column format, the sentinels
NewReformat ==
    [thrown |-> FALSE, m_rowfmt |-> NoLines, m_colfmt |-> NoLines,
     m_fmt |-> NewLine]

\* Reformat::parse_format(format): the top-level formatting arguments, a
\* row or column selector with its format or a key of the default format
RECURSIVE parse_format_from(_, _, _)
parse_format_lines(reformat, str, key, numbers, kv, linefmt) ==
    IF numbers.thrown \/ kv.thrown \/ linefmt.thrown
    THEN [reformat EXCEPT !.thrown = TRUE]
    ELSE IF key \in {"row", "rows"}
    THEN parse_format_from(
             [reformat EXCEPT !.m_rowfmt =
                  linefmt_apply(@, numbers.out, linefmt.fmt)],
             str, kv.curr)
    ELSE parse_format_from(
             [reformat EXCEPT !.m_colfmt =
                  linefmt_apply(@, numbers.out, linefmt.fmt)],
             str, kv.curr)

parse_format_value(reformat, str, key, numbers, kv) ==
    parse_format_lines(reformat, str, key, numbers, kv,
                       Line_parse_format(kv.value))

parse_format_selector(reformat, str, key, arg) ==
    parse_format_value(reformat, str, key, parse_numbers(arg.arg),
                       parse_keyvalue(str, arg.curr))

parse_format_default(reformat, str, done) ==
    IF done.thrown THEN [reformat EXCEPT !.thrown = TRUE]
    ELSE parse_format_from([reformat EXCEPT !.m_fmt = done.fmt], str,
                           done.curr)

parse_format_key(reformat, str, kw) ==
    IF ~kw.ok THEN reformat
    ELSE IF kw.key \in {"col", "cols", "column", "columns", "row", "rows"}
    THEN parse_format_selector(reformat, str, kw.key,
                               parse_keyargument(str, kw.curr))
    ELSE parse_format_default(
             reformat, str,
             Line_parse_keyformat(reformat.m_fmt, kw.key, str, kw.curr))

parse_format_from(reformat, str, curr) ==
    parse_format_key(reformat, str, parse_keyword(str, curr))

parse_format(reformat, str) == parse_format_from(reformat, str, 0)

\* Reformat::parse_query(query): the format of a REFORMAT(...) clause and
\* the query without the clause.  Without a closing parenthesis the
\* substr() behind the end of the query throws std::out_of_range.
parse_query_clause(query, f2, parsed) ==
    IF f2 >= Len(query)
    THEN [reformat |-> [parsed EXCEPT !.thrown = TRUE], query |-> query]
    ELSE [reformat |-> parsed, query |-> trim(substr(query, f2 + 1))]

parse_query_format(query, f1, f2) ==
    parse_query_clause(query, f2,
        parse_format(NewReformat, trim(substr_n(query, f1, f2 - f1))))

parse_query_from(query, f0) ==
    IF At(query, f0) # "("
    THEN [reformat |-> [NewReformat EXCEPT !.thrown = TRUE], query |-> query]
    ELSE parse_query_format(query, f0 + 1, balanced_end(query, f0 + 1, 0))

\* a faulty parse_query() that leaves the clause in the query
parse_query_kept(query) ==
    IF ~is_prefix(query, "REFORMAT")
    THEN [reformat |-> NewReformat, query |-> query]
    ELSE [reformat |->
              parse_query_from(query,
                               skip_blank(query, Len("REFORMAT"))).reformat,
          query |-> query]

parse_query(query) ==
    IF ~is_prefix(query, "REFORMAT")
    THEN [reformat |-> NewReformat, query |-> query]
    ELSE parse_query_from(query, skip_blank(query, Len("REFORMAT")))

\* Reformat::prepare(sql): one cell of the scan; m_rowfmt[i] and m_colfmt[j]
\* make the entries they name
prepare_cell(reformat, i, j, txt) ==
    LET rowfmt == linefmt_at(reformat.m_rowfmt, i)
        colfmt == linefmt_at(reformat.m_colfmt, j)
        made_row == [reformat EXCEPT !.m_rowfmt = linefmt_put(@, i, rowfmt)]
        made_col == [made_row EXCEPT !.m_colfmt = linefmt_put(@, j, colfmt)]
        num == from_str_double(txt)
        v == num.value
        row1 == IF v < rowfmt.m_min_value
                THEN [rowfmt EXCEPT !.m_min_value = v, !.m_min_text = txt]
                ELSE rowfmt
        row2 == IF v > row1.m_max_value
                THEN [row1 EXCEPT !.m_max_value = v, !.m_max_text = txt]
                ELSE row1
        col1 == IF v < colfmt.m_min_value
                THEN [colfmt EXCEPT !.m_min_value = v, !.m_min_text = txt]
                ELSE colfmt
        col2 == IF v > col1.m_max_value
                THEN [col1 EXCEPT !.m_max_value = v, !.m_max_text = txt]
                ELSE col1
    IN  IF /\ ~Line_readdata(rowfmt)
           /\ ~Line_readdata(colfmt)
           /\ ~Line_readdata(reformat.m_fmt)
        THEN made_col
        ELSE IF Len(txt) = 0 \/ ~num.ok
        THEN IF Line_readdata(rowfmt) THEN made_row ELSE made_col
        ELSE [reformat EXCEPT !.m_rowfmt = linefmt_put(@, i, row2),
                              !.m_colfmt = linefmt_put(@, j, col2)]

\* Reformat::prepare(sql)
RECURSIVE prepare_from(_, _, _, _)
prepare_from(reformat, sql, i, j) ==
    IF i >= num_rows(sql) THEN reformat
    ELSE IF j >= num_cols(sql) THEN prepare_from(reformat, sql, i + 1, 0)
    ELSE prepare_from(prepare_cell(reformat, i, j, text(sql, i, j)),
                      sql, i, j + 1)

prepare(reformat, sql) == prepare_from(reformat, sql, 0, 0)

\* floor(v), ceil(v) and round(v * p) / p with p = pow(10, round_digits)
floor(v) == (v \div Scale) * Scale
ceil(v) == 0 - floor(0 - v)
round_to(v, round_digits) ==
    IF round_digits >= DecimalDigits THEN v
    ELSE LET unit == pow10(DecimalDigits - round_digits)
             away == ((IF v < 0 THEN 0 - v ELSE v) + unit \div 2) \div unit
         IN  IF v < 0 THEN 0 - away * unit ELSE away * unit

\* a number with leading zeros, and the thousands grouping "\03" with ','
RECURSIVE zeros(_)
zeros(n) == IF n <= 0 THEN "" ELSE "0" \o zeros(n - 1)
zero_padded(n, w) == zeros(w - Len(ToString(n))) \o ToString(n)
RECURSIVE do_grouping(_)
do_grouping(str) ==
    IF Len(str) <= 3 THEN str
    ELSE do_grouping(substr_n(str, 0, Len(str) - 3)) \o ","
             \o substr(str, Len(str) - 3)

\* oss << std::fixed << std::setprecision(precision) << v under the locale
\* CommaGrouping: the nearest decimal, a tie to the even digit
fixed(v, precision) ==
    LET a == IF v < 0 THEN 0 - v ELSE v
        unit == pow10(DecimalDigits - precision)
        q == a \div unit
        r == a % unit
        up == 2 * r > unit \/ (2 * r = unit /\ q % 2 = 1)
        n == IF precision >= DecimalDigits THEN a
             ELSE IF up THEN q + 1 ELSE q
        shown == IF precision >= DecimalDigits THEN DecimalDigits
                 ELSE precision
        whole == n \div pow10(shown)
        part == n % pow10(shown)
    IN  (IF v < 0 THEN "-" ELSE "")
            \o do_grouping(ToString(whole))
            \o (IF precision > 0
                THEN "." \o zero_padded(part, shown) \o zeros(precision - shown)
                ELSE "")

\* Reformat::format(): the precision of digits=2, 3, 4
digits_precision(v, digits) ==
    IF v < Scale THEN digits
    ELSE IF v < 10 * Scale THEN digits - 1
    ELSE IF digits = 2 THEN 0
    ELSE IF v < 100 * Scale THEN digits - 2
    ELSE IF digits = 3 THEN 0
    ELSE IF v < 1000 * Scale THEN digits - 3
    ELSE 0

\* Reformat::format(): the format of a cell, the default format with the
\* format of the row and then the format of the column applied
format_merged(reformat, row, col) ==
    LET fmt1 == IF row \in DOMAIN reformat.m_rowfmt
                THEN Line_apply(reformat.m_fmt, reformat.m_rowfmt[row])
                ELSE reformat.m_fmt
    IN  IF col \in DOMAIN reformat.m_colfmt
        THEN Line_apply(fmt1, reformat.m_colfmt[col])
        ELSE fmt1

\* Reformat::format(): a number under the merged format; the default
\* precision of a stream is 6
format_number(merged, number, in_text) ==
    LET v == IF merged.m_round = "RD_FLOOR" THEN floor(number)
             ELSE IF merged.m_round = "RD_CEIL" THEN ceil(number)
             ELSE IF merged.m_round = "RD_ROUND"
             THEN round_to(number, merged.m_round_digits)
             ELSE number
        fmt == IF merged.m_reformat_precision >= 0 THEN merged
               ELSE IF merged.m_round \in {"RD_FLOOR", "RD_CEIL"}
               THEN [merged EXCEPT !.m_reformat_precision = 0]
               ELSE IF merged.m_round = "RD_ROUND"
               THEN [merged EXCEPT !.m_reformat_precision =
                                       max(0, merged.m_round_digits)]
               ELSE merged
        reformatted ==
            IF fmt.m_reformat_digits >= 0
            THEN fixed(v, digits_precision(v, fmt.m_reformat_digits))
            ELSE setw_right(
                     fixed(v, IF fmt.m_reformat_precision >= 0
                              THEN fmt.m_reformat_precision ELSE 6),
                     fmt.m_reformat_width)
        txt == IF \/ fmt.m_reformat_precision >= 0
                  \/ fmt.m_reformat_width >= 0
                  \/ fmt.m_reformat_digits >= 0
                  \/ Len(fmt.m_grouping) > 0
               THEN reformatted ELSE in_text
        grouped == replace_all(txt, ",", fmt.m_grouping)
        style == IF in_text = fmt.m_min_text THEN fmt.m_min_format
                 ELSE IF in_text = fmt.m_max_text THEN fmt.m_max_format
                 ELSE "MF_NONE"
    IN  IF fmt.m_reformat_digits >= 0 /\ fmt.m_reformat_digits \notin {2, 3, 4}
        THEN [thrown |-> TRUE, text |-> in_text]
        ELSE [thrown |-> FALSE,
              text |-> IF style = "MF_BOLD" THEN "\\textbf{" \o grouped \o "}"
                       ELSE IF style = "MF_EMPH" THEN "\\emph{" \o grouped \o "}"
                       ELSE grouped]

\* Reformat::format(row, col, in_text)
format(reformat, row, col, in_text) ==
    IF Len(in_text) = 0 THEN [thrown |-> FALSE, text |-> in_text]
    ELSE LET num == from_str_double(in_text)
         IN  IF ~num.ok THEN [thrown |-> FALSE, text |-> in_text]
             ELSE format_number(format_merged(reformat, row, col), num.value,
                                in_text)

\* tabular(): the width of a column, the widest formatted cell
RECURSIVE tabular_width(_, _, _, _, _)
tabular_width(reformat, sql, col, row, w) ==
    IF row >= num_rows(sql) THEN w
    ELSE tabular_width(reformat, sql, col, row + 1,
             max(w, Len(format(reformat, row, col, text(sql, row, col)).text)))

\* tabular(): one generated line, the cells joined by the separator
RECURSIVE tabular_row(_, _, _, _, _, _)
tabular_row(reformat, sql, row, col, separator, endline) ==
    IF col >= num_cols(sql) THEN endline
    ELSE (IF col # 0 THEN separator ELSE "")
             \o setw_right(format(reformat, row, col, text(sql, row, col)).text,
                           tabular_width(reformat, sql, col, 0, 0))
             \o tabular_row(reformat, sql, row, col + 1, separator, endline)

\* tabular(): whether Reformat::format() throws for a cell of the result
tabular_throws(reformat, sql) ==
    \E i \in 0..(num_rows(sql) - 1), j \in 0..(num_cols(sql) - 1) :
        format(reformat, i, j, text(sql, i, j)).thrown

\* tabular(): the regular expression "[[:blank:]]*% END " + op_name + " .*"
re_endtabular(str, op_name) ==
    starts_at(str, "% END " \o op_name \o " ", skip_blank(str, 0))

\* tabular(): the gobble expressions, .*?\\\\(.*) of TABULAR and .*\t.*()
\* of TABTABLE, with the sub-expression that is copied
re_tabular(str, op_name) ==
    IF op_name = "TABULAR"
    THEN LET p == find(str, "\\\\", 0)
         IN  IF p = npos THEN NoMatch
             ELSE [ok |-> TRUE, m1 |-> substr(str, p + 2), m2 |-> ""]
    ELSE IF find(str, "\t", 0) = npos THEN NoMatch
         ELSE [ok |-> TRUE, m1 |-> "", m2 |-> ""]

\* a faulty loop that copies no style
tabular_styles_none(lines, tlines, op_name, entry, rln, eln) == tlines

\* tabular(): the loop that copies the styles of the old rows
RECURSIVE tabular_styles(_, _, _, _, _, _)
tabular_styles(lines, tlines, op_name, entry, rln, eln) ==
    IF /\ entry < Len(tlines)
       /\ rln < eln
       /\ re_tabular(line(lines, rln), op_name).ok
    THEN tabular_styles(lines,
             [tlines EXCEPT ![entry + 1] =
                  @ \o re_tabular(line(lines, rln), op_name).m1],
             op_name, entry + 1, rln + 1, eln)
    ELSE tlines

\* tabular(): the lines of the table and the END marker are put in
tabular_output(lines, ln, indent, op_name, separator, endline, query, sql, reformat) ==
    IF tabular_throws(reformat, sql) THEN Thrown(lines)
    ELSE LET tlines == [i \in 1..num_rows(sql) |->
                           tabular_row(reformat, sql, i - 1, 0, separator,
                                       endline)]
             eln == next_comment(comment_char, lines, ln)
             endmark == shorten("% END " \o op_name \o " " \o query)
         IN  IF eln < Len(lines) /\ re_endtabular(line(lines, eln), op_name)
             THEN Spliced(
                      replace_indent(lines, ln, eln + 1, indent,
                          Append(tabular_styles(lines, tlines, op_name, 0,
                                                ln, eln),
                                 endmark)),
                      replace_log(ln, eln + 1, op_name))
             ELSE Spliced(
                      replace_indent(lines, ln, ln, indent,
                                     Append(tlines, endmark)),
                      replace_log(ln, ln, op_name))

\* tabular(): the query is executed and the reformatting prepared
tabular_result(lines, ln, indent, op_name, separator, endline, parsed, sql) ==
    IF ~sql.ok THEN Thrown(lines)
    ELSE tabular_output(lines, ln, indent, op_name, separator, endline,
                        parsed.query, sql, prepare(parsed.reformat, sql))

\* tabular(): the REFORMAT clause is parsed and removed from the query
tabular_query(lines, table, ln, indent, op_name, separator, endline, parsed) ==
    IF parsed.reformat.thrown THEN Thrown(lines)
    ELSE tabular_result(lines, ln, indent, op_name, separator, endline,
                        parsed, SqlQuery(table, parsed.query))

\* SpLatex::tabular(ln, indent, cmdline, op_name, separator, endline,
\* gobble_regex)
tabular(lines, table, ln, indent, cmdline, op_name, separator, endline) ==
    tabular_query(lines, table, ln, indent, op_name, separator, endline,
                  parse_query(cmdline))

\* SpLatex::sql(ln, indent, cmdline)
sql_command(lines, table, cmdline) ==
    IF SqlQuery(table, cmdline).ok
    THEN [thrown |-> FALSE, asserted |-> FALSE, lines |-> lines,
          log |-> [what |-> "SQL", begin |-> 0, end |-> 0, desc |-> "SQL"]]
    ELSE Thrown(lines)

(***************************************************************************)
(* latex.cpp: the scan loop of SpLatex::SpLatex                            *)
(***************************************************************************)

\* the characters of a keyword
KeywordChars ==
    {"A", "B", "C", "D", "E", "F", "G", "H", "I", "J", "K", "L", "M", "N",
     "O", "P", "Q", "R", "S", "T", "U", "V", "W", "X", "Y", "Z", "-", "_"}

\* the keywords the scan loop dispatches
Keywords ==
    {"RANGE", "SQL", "IMPORT-DATA", "CONNECT", "TEXTTABLE", "PLOT",
     "MULTIPLOT", "TABULAR", "TABTABLE", "DEFMACRO"}

\* cmd.find_first_not_of("ABCDEFGHIJKLMNOPQRSTUVWXYZ-_")
space_pos(cmd) == find_first_not_of(cmd, KeywordChars, 0)

\* cmd.substr(0, space_pos)
first_word(cmd) ==
    IF space_pos(cmd) = npos THEN cmd ELSE substr_n(cmd, 0, space_pos(cmd))

\* cmd.substr(space_pos+1)
argument(cmd) == substr(cmd, space_pos(cmd) + 1)

\* the second word of a RANGE command and the rest after it; substr throws
\* std::out_of_range when the position it is given is npos
range_words(cmd) ==
    LET non_space_pos == find_first_of(cmd, KeywordChars, space_pos(cmd))
        space2_pos == find_first_not_of(cmd, KeywordChars, non_space_pos)
        non_space2_pos == find_first_not_of(cmd, {" "}, space2_pos)
    IN  IF non_space_pos = npos \/ non_space2_pos = npos
        THEN [ok |-> FALSE, second_word |-> "", rest_word |-> ""]
        ELSE [ok |-> TRUE,
              second_word |->
                  IF space2_pos = npos THEN substr(cmd, non_space_pos)
                  ELSE substr_n(cmd, non_space_pos, space2_pos - non_space_pos),
              rest_word |-> substr(cmd, non_space2_pos)]

\* a faulty RANGE that opens and closes a range whatever its name
range_flag_any_name(active, ranges, second_word, rest_word) ==
    IF second_word = "BEGIN" THEN TRUE
    ELSE IF second_word = "END" THEN FALSE
    ELSE active

\* the flag after a RANGE command: BEGIN and END of a selected name set it
range_flag(active, ranges, second_word, rest_word) ==
    IF second_word = "BEGIN"
    THEN (IF rest_word \in ranges THEN TRUE ELSE active)
    ELSE IF second_word = "END"
    THEN (IF rest_word \in ranges THEN FALSE ELSE active)
    ELSE active

(***************************************************************************)
(* The connection to the database                                          *)
(***************************************************************************)

UpperCase == "ABCDEFGHIJKLMNOPQRSTUVWXYZ"
LowerCase == "abcdefghijklmnopqrstuvwxyz"

\* str_tolower(str)
RECURSIVE str_tolower(_)
str_tolower(str) ==
    IF str = "" THEN ""
    ELSE (IF find(UpperCase, At(str, 0), 0) = npos THEN At(str, 0)
          ELSE At(LowerCase, find(UpperCase, At(str, 0), 0)))
         \o str_tolower(substr(str, 1))

\* the database of the command line, the databases that can be opened, and
\* no database
MainDb == "test"
Openable == {"test", "b"}
NoDb == ""

\* the names of the database engines
PgNames == {"postgresql", "postgres", "pgsql", "pg"}
MyNames == {"mysql", "my"}
LiteNames == {"sqlite", "lite"}

\* g_db_connect(db_conninfo): the open connection is closed, the engine is
\* chosen by the name before the colon, the database by the name after it
g_db_connect(g_db_now, db_conninfo) ==
    LET colonpos == find(db_conninfo, ":", 0)
        sqlname == str_tolower(IF colonpos # npos
                               THEN substr_n(db_conninfo, 0, colonpos)
                               ELSE db_conninfo)
        dbname == IF colonpos # npos THEN substr(db_conninfo, colonpos + 1)
                  ELSE ""
        opened == IF sqlname \in MyNames /\ dbname = "" THEN "test"
                  ELSE IF sqlname \in LiteNames /\ dbname = "" THEN ":memory:"
                  ELSE dbname
    IN  IF db_conninfo = "" THEN [ok |-> TRUE, db |-> MainDb]
        ELSE IF sqlname \in PgNames \cup MyNames \cup LiteNames
                /\ opened \in Openable
        THEN [ok |-> TRUE, db |-> opened]
        ELSE [ok |-> FALSE, db |-> NoDb]

(***************************************************************************)
(* gnuplot.cpp: the Gnuplot processor                                      *)
(***************************************************************************)

\* operator<< of an unsigned int
RECURSIVE itoa(_)
itoa(n) ==
    IF n < 10 THEN SubSeq("0123456789", n + 1, n + 1)
    ELSE itoa(n \div 10) \o SubSeq("0123456789", (n % 10) + 1, (n % 10) + 1)

\* is_comment_line(line): the index of the # after the blanks, or -1
gp_is_comment_line(str) ==
    IF At(str, skip_blank(str, 0)) = "#" THEN skip_blank(str, 0) ELSE -1

\* process(): the comment lines at the same indent are one command
RECURSIVE gp_collect_more(_, _, _, _)
gp_collect_more(lines, ln, indent, cmdline) ==
    IF ln < Len(lines) /\ gp_is_comment_line(line(lines, ln)) = indent
    THEN gp_collect_more(lines, ln + 1, indent,
                         cmdline \o substr(line(lines, ln), indent + 1))
    ELSE [ok |-> TRUE, ln |-> ln, cmd |-> trim(cmdline), indent |-> indent]

gp_collect(lines, ln) ==
    IF gp_is_comment_line(line(lines, ln)) < 0
    THEN [ok |-> FALSE, ln |-> ln + 1, cmd |-> "", indent |-> 0]
    ELSE gp_collect_more(lines, ln + 1, gp_is_comment_line(line(lines, ln)),
             substr(line(lines, ln), gp_is_comment_line(line(lines, ln)) + 1))

\* process_stream(): the name of the datafile
g_datafilename(filename) ==
    (IF rfind(filename, ".", Len(filename)) # npos
     THEN substr_n(filename, 0, rfind(filename, ".", Len(filename)))
     ELSE filename) \o "-data.txt"

\* the index behind the last character of a line that is no blank
blank_end(str) == find_last_not_of(str, {" ", "\t"}, Len(str) - 1) + 1

\* gnuplot_plot_rewrite(): the regular expression re_plot,
\*   [[:blank:]]*plot.*\\[[:blank:]]*
re_plot(str) ==
    /\ starts_at(str, "plot", skip_blank(str, 0))
    /\ blank_end(str) - 1 >= skip_blank(str, 0) + Len("plot")
    /\ At(str, blank_end(str) - 1) = "\\"

\* the index behind the digits that begin at i
RECURSIVE digits_end(_, _)
digits_end(str, i) == IF isdigit(At(str, i)) THEN digits_end(str, i + 1) ELSE i

\* gnuplot_plot_rewrite(): the regular expression re_line,
\*   [[:blank:]]*'[^']+' index [0-9]+( .*?)(, \\)?[[:blank:]]*
\* The lazy .*? ends before a ", \" at the end of the line, else before the
\* blanks at the end of the line.
re_line(str) ==
    LET b == skip_blank(str, 0)
        q == find(str, "'", b + 1)
        d == q + Len("' index ")
        r == digits_end(str, d)
        t == blank_end(str)
    IN  IF /\ At(str, b) = "'"
           /\ q # npos
           /\ q > b + 1
           /\ starts_at(str, "' index ", q)
           /\ r > d
           /\ At(str, r) = " "
        THEN IF t - 3 > r /\ substr_n(str, t - 3, 3) = ", \\"
             THEN [ok |-> TRUE, m1 |-> substr_n(str, r, t - 3 - r),
                   m2 |-> ", \\"]
             ELSE [ok |-> TRUE, m1 |-> substr_n(str, r, max(t, r + 1) - r),
                   m2 |-> ""]
        ELSE NoMatch

\* gnuplot_plot_rewrite(): the start of an entry of the plot clause
gp_entry(filename, datasets, entry) ==
    (IF entry # 0 THEN "," ELSE "") \o " \\\n" \o "    '"
        \o g_datafilename(filename) \o "' index "
        \o itoa(datasets[entry + 1].index)

\* gnuplot_plot_rewrite(): a plot clause constructed from scratch
RECURSIVE gp_scratch(_, _, _)
gp_scratch(filename, datasets, i) ==
    IF i >= Len(datasets) THEN ""
    ELSE gp_entry(filename, datasets, i) \o " with linespoints"
             \o gp_scratch(filename, datasets, i + 1)

\* gnuplot_plot_rewrite(): the loop over the lines of the old plot clause;
\* it is left by the break at a line without ", \" or at a line that is no
\* entry
RECURSIVE gp_merge(_, _, _, _, _, _)
gp_merge(lines, filename, datasets, eln, entry, oss) ==
    LET rm == IF eln < Len(lines) THEN re_line(line(lines, eln)) ELSE NoMatch
    IN  IF ~rm.ok THEN [eln |-> eln, entry |-> entry, oss |-> oss]
        ELSE IF entry < Len(datasets)
        THEN LET out == oss \o gp_entry(filename, datasets, entry)
                            \o (IF /\ find(rm.m1, "title ", 0) = npos
                                   /\ Len(datasets[entry + 1].title) > 0
                                THEN " title \"" \o datasets[entry + 1].title
                                         \o "\""
                                ELSE "")
                            \o rm.m1
             IN  IF Len(rm.m2) = 0
                 THEN [eln |-> eln + 1, entry |-> entry, oss |-> out]
                 ELSE gp_merge(lines, filename, datasets, eln + 1, entry + 1,
                               out)
        ELSE gp_merge(lines, filename, datasets, eln + 1, entry, oss)

\* gnuplot_plot_rewrite(): the loop that appends the missing entries
RECURSIVE gp_append(_, _, _, _)
gp_append(filename, datasets, entry, oss) ==
    IF entry >= Len(datasets) THEN oss
    ELSE gp_append(filename, datasets, entry + 1,
             oss \o gp_entry(filename, datasets, entry)
                 \o (IF Len(datasets[entry + 1].title) > 0
                     THEN " title \"" \o datasets[entry + 1].title \o "\""
                     ELSE "")
                 \o " with linespoints")

\* gnuplot_plot_rewrite(ln, indent, datasets, plot_type)
gnuplot_plot_rewrite(lines, filename, ln, indent, datasets, plot_type) ==
    IF ln >= Len(lines) \/ ~re_plot(line(lines, ln))
    THEN Spliced(replace_string(lines, ln, ln, indent,
                     "plot" \o gp_scratch(filename, datasets, 0) \o "\n"),
                 replace_log(ln, ln, plot_type))
    ELSE LET m == gp_merge(lines, filename, datasets, ln + 1, 0, "plot")
         IN  Spliced(replace_string(lines, ln, m.eln, indent,
                         gp_append(filename, datasets, m.entry, m.oss) \o "\n"),
                     replace_log(ln, m.eln, plot_type))

\* std::string(n, '#')
RECURSIVE hashes(_)
hashes(n) == IF n <= 0 THEN "" ELSE "#" \o hashes(n - 1)

\* what a processor of gnuplot.cpp leaves: the outcome of the rewrite, the
\* index of the next dataset and the datafile
GpDone(r, dataindex, datafile) ==
    [thrown |-> r.thrown, asserted |-> r.asserted, lines |-> r.lines,
     log |-> r.log, dataindex |-> dataindex, datafile |-> datafile]

\* process_sql(ln, indent, cmdline)
process_sql(lines, table, cmdline, dataindex, datafile) ==
    GpDone(sql_command(lines, table, cmdline), dataindex, datafile)

\* process_plot(): the columns of a row, separated by tabs
RECURSIVE gp_row(_, _, _)
gp_row(sql, row, col) ==
    IF col >= num_cols(sql) THEN ""
    ELSE (IF col # 0 THEN "\t" ELSE "") \o text(sql, row, col)
             \o gp_row(sql, row, col + 1)

\* process_plot(ln, indent, cmdline)
process_plot(lines, table, filename, ln, indent, cmdline, dataindex, datafile) ==
    LET sql == SqlQuery(table, cmdline)
    IN  IF ~sql.ok THEN GpDone(Thrown(lines), dataindex, datafile)
        ELSE GpDone(
                 gnuplot_plot_rewrite(lines, filename, ln, indent,
                     <<[index |-> dataindex, title |-> ""]>>, "PLOT"),
                 dataindex + 1,
                 datafile \o <<hashes(80), "# PLOT " \o cmdline, "#">>
                     \o [row \in 1..num_rows(sql) |-> gp_row(sql, row - 1, 0)]
                     \o <<"", "">>)

\* process_multiplot(): the regular expression re_multiplot,
\*   MULTIPLOT\(([^)]+)\) (SELECT .+)
gp_re_multiplot(cmdline) ==
    LET open == Len("MULTIPLOT(")
        close == find(cmdline, ")", open)
    IN  IF /\ is_prefix(cmdline, "MULTIPLOT(")
           /\ close # npos
           /\ close > open
           /\ starts_at(cmdline, " SELECT ", close + 1)
           /\ Len(cmdline) > close + 1 + Len(" SELECT ")
        THEN [ok |-> TRUE, m1 |-> substr_n(cmdline, open, close - open),
              m2 |-> substr(cmdline, close + 2)]
        ELSE NoMatch

\* process_multiplot(): the legend "field=value,..." of a group
RECURSIVE gp_legend(_, _, _)
gp_legend(groupfields, rowgroup, i) ==
    IF i >= Len(rowgroup) THEN ""
    ELSE (IF i # 0 THEN "," ELSE "") \o groupfields[i + 1] \o "="
             \o rowgroup[i + 1] \o gp_legend(groupfields, rowgroup, i + 1)

\* process_multiplot(): the loop over sql.step() and the end of the last
\* dataset behind it
RECURSIVE gp_groups(_, _, _, _, _, _, _, _, _, _)
gp_groups(sql, groupfields, groupcols, colx, coly, row, lastgroup, dataindex, datafile, datasets) ==
    IF row >= num_rows(sql)
    THEN [dataindex |-> dataindex + 1, datafile |-> datafile \o <<"", "">>,
          datasets |-> datasets]
    ELSE LET rowgroup == [i \in 1..Len(groupcols) |->
                             text(sql, row, groupcols[i])]
             coords == text(sql, row, colx) \o "\t" \o text(sql, row, coly)
             index == IF row # 0 THEN dataindex + 1 ELSE dataindex
             legend == gp_legend(groupfields, rowgroup, 0)
         IN  IF row = 0 \/ lastgroup # rowgroup
             THEN gp_groups(sql, groupfields, groupcols, colx, coly, row + 1,
                      rowgroup, index,
                      datafile \o (IF row # 0 THEN <<"", "">> ELSE <<>>)
                          \o <<"# index " \o itoa(index) \o " " \o legend,
                               coords>>,
                      Append(datasets, [index |-> index, title |-> legend]))
             ELSE gp_groups(sql, groupfields, groupcols, colx, coly, row + 1,
                      lastgroup, dataindex, Append(datafile, coords), datasets)

\* process_multiplot(ln, indent, cmdline)
process_multiplot(lines, table, filename, ln, indent, cmdline, dataindex, datafile) ==
    LET rm == gp_re_multiplot(cmdline)
        groupfields == [i \in 1..Len(split(rm.m1, ",")) |->
                           trim_inplace_ws(split(rm.m1, ",")[i])]
        sql == SqlQuery(table, replace_all(rm.m2, "MULTIPLOT", rm.m1))
        failed == GpDone(Thrown(lines), dataindex, datafile)
    IN  IF ~rm.ok THEN failed
        ELSE IF ~sql.ok THEN failed
        ELSE IF ~exist_col(sql, "x") \/ ~exist_col(sql, "y") THEN failed
        ELSE IF \E i \in 1..Len(groupfields) : ~exist_col(sql, groupfields[i])
        THEN failed
        ELSE LET g == gp_groups(sql, groupfields,
                          [i \in 1..Len(groupfields) |->
                              find_col(sql, groupfields[i])],
                          find_col(sql, "x"), find_col(sql, "y"), 0, <<>>,
                          dataindex,
                          datafile \o <<hashes(80), "# " \o cmdline, "#">>,
                          <<>>)
             IN  GpDone(gnuplot_plot_rewrite(lines, filename, ln, indent,
                                             g.datasets, "MULTIPLOT"),
                        g.dataindex, g.datafile)

\* maybe_quote(str): strtod parses the whole text, here a text of digits or
\* the empty text, or the text is put in quotes
maybe_quote(str) ==
    IF Len(str) = 0 \/ str_is_double(str) THEN str ELSE "'" \o str \o "'"

\* process_macro(): the regular expression re_macro, [^=]+ = .*
re_macro(str) == find(str, "=", 0) >= 2 /\ starts_at(str, " = ", find(str, "=", 0) - 1)

\* process_macro(): one line "name = value" for each column
RECURSIVE macro_cols(_, _)
macro_cols(sql, col) ==
    IF col >= num_cols(sql) THEN ""
    ELSE col_name(sql, col) \o " = " \o maybe_quote(text(sql, 0, col)) \o "\n"
             \o macro_cols(sql, col + 1)

\* process_macro(): the macro lines that follow the command
RECURSIVE macro_gobble(_, _)
macro_gobble(lines, eln) ==
    IF eln < Len(lines) /\ re_macro(line(lines, eln))
    THEN macro_gobble(lines, eln + 1)
    ELSE eln

\* process_macro(ln, indent, cmdline)
process_macro(lines, table, ln, indent, cmdline, dataindex, datafile) ==
    LET sql == SqlQuery(table, cmdline)
    IN  IF ~sql.ok \/ num_rows(sql) # 1
        THEN GpDone(Thrown(lines), dataindex, datafile)
        ELSE GpDone(Spliced(replace_string(lines, ln, macro_gobble(lines, ln),
                                           indent, macro_cols(sql, 0)),
                            replace_log(ln, macro_gobble(lines, ln), "MACRO")),
                    dataindex, datafile)

\* process(): the keywords dispatched
GpKeywords == {"SQL", "IMPORT-DATA", "PLOT", "MULTIPLOT", "MACRO"}

(***************************************************************************)
(* main.cpp: the driver.  One run of the tool reads the input file,        *)
(* scans it and, when the scan ended without a fatal error, writes the     *)
(* buffer back over the input file.                                        *)
(***************************************************************************)

VARIABLES
    disk,       \* the lines of the input file on disk
    wopen,      \* the input file was opened for writing in this run
    m_lines,    \* the line buffer of the run
    ln,         \* the cursor of the scan loop
    pc,         \* "start", "scan", "finished", "written", "failed", "aborted",
                \* "exhausted"
    table,      \* the rows of the table t in the database
    runs,       \* the number of the run, counted from 1
    grown,      \* the table gained a row since the previous run
    log,        \* the messages of the run: splices, errors
    tl,         \* textlines.h alone: a TextLines buffer
    tl_call,    \* textlines.h alone: the last call of replace on tl
    g_dataindex,    \* gnuplot.cpp: the index of the next dataset
    g_datafile,     \* gnuplot.cpp: the lines written to the datafile
    gopt_ranges,    \* the names of the ranges selected with -R
    active_range,   \* the scan is inside a selected range, or none is selected
    g_db,           \* the database the connection is open on
    sqlq,           \* sql.h alone: a query, its cursor and its cache
    rf,             \* reformat.cpp alone: a Reformat and the cell it formats
    imp,            \* importdata.cpp: the field set and the table of an import
    collected       \* textlines.h: the last call of collect_comment

vars == <<disk, wopen, m_lines, ln, pc, table, runs, grown, log, tl, tl_call,
          g_dataindex, g_datafile, gopt_ranges, active_range, g_db, sqlq,
          rf, imp, collected>>

\* the variables of textlines.h alone and of gnuplot.cpp
others == <<tl, tl_call, g_dataindex, g_datafile>>

\* the selected ranges, the flag of the scan and the connection
conn == <<gopt_ranges, active_range, g_db>>

\* the variables of sql.h alone, of reformat.cpp alone, of the importer and
\* of collect_comment() alone
aside == <<sqlq, rf, imp, collected>>

\* bounds of the model
MaxRows == 2
MaxIndent == 1
MaxRuns == 2
MaxOld == 2
MaxLines == 24
MaxBuf == 3

\* the name of the input file
InputFile == "doc.tex"

\* sp_process_stream(): the file type detected from the suffix of the name
filetype(filename) ==
    IF \/ is_suffix(filename, ".tex")
       \/ is_suffix(filename, ".latex")
       \/ is_suffix(filename, ".ltx")
    THEN "latex"
    ELSE IF \/ is_suffix(filename, ".gp")
            \/ is_suffix(filename, ".gpi")
            \/ is_suffix(filename, ".gnu")
            \/ is_suffix(filename, ".plt")
            \/ is_suffix(filename, ".plot")
            \/ is_suffix(filename, ".gnuplot")
    THEN "gnuplot"
    ELSE ""

\* a faulty driver that swallows the exception of a processor
scan_outcome_swallowed(r) == IF r.asserted THEN "aborted" ELSE "scan"

\* where a processor leaves the run: the scan goes on, an exception reaches
\* the handler of main() (EXIT_FAILURE), a failed assertion aborts
scan_outcome(r) ==
    IF r.thrown THEN "failed"
    ELSE IF r.asserted THEN "aborted"
    ELSE "scan"

(***************************************************************************)
(* The inputs: the rows of the table t and the documents.                  *)
(***************************************************************************)

Cell(str) == [isnull |-> FALSE, text |-> str]
Null == [isnull |-> TRUE, text |-> ""]

\* the rows a table is made of: two groups, a row with a NULL x, and a row
\* whose text begins with the comment character
RowVals ==
    { <<Cell("A"), Cell("1"), Cell("2")>>,
      <<Cell("B"), Cell("3"), Cell("4")>>,
      <<Cell("A"), Null, Cell("5")>>,
      <<Cell("% TABTABLE " \o QueryG), Cell("6"), Cell("7")>> }

Tables == UNION { [1..n -> RowVals] : n \in 0..MaxRows }

Indents == 0..MaxIndent

\* a directive line: the indent, the comment character and the command
Directive(indent, cmd) == spaces(indent) \o "% " \o cmd

\* the k-th \addplot and \addlegendentry line of an earlier run, hand-edited
OldAddplot(k) ==
    IF k = 1 THEN "\\addplot[red] coordinates { (9,9) }; % one"
    ELSE IF k = 2 THEN "\\addplot+[blue] coordinates { (8,8) }; % two"
    ELSE "\\addplot coordinates { (7,7) };"
OldLegend(k) ==
    IF k = 1 THEN "\\addlegendentry{old}; % first"
    ELSE "\\addlegendentry{g=Z};"

\* the entries an earlier MULTIPLOT left: n entries, where legend tells
\* which of them have their legend line
RECURSIVE OldEntries(_, _, _)
OldEntries(k, n, legend) ==
    IF k > n THEN <<>>
    ELSE <<OldAddplot(k)>>
             \o (IF k \in legend THEN <<OldLegend(k)>> ELSE <<>>)
             \o OldEntries(k + 1, n, legend)

TexttableDocs ==
    { <<Directive(i, "TEXTTABLE " \o QueryAll)>> \o old \o <<"tail">> :
          i \in Indents,
          old \in { <<>>,
                    <<"| stale |", "% END TEXTTABLE " \o QueryAll>>,
                    <<"| stale |", "% PLOT " \o QueryNoY>> } }

PlotDocs ==
    { <<"head", Directive(i, "PLOT " \o QueryAll)>> \o old \o <<"tail">> :
          i \in Indents,
          old \in { <<>>,
                    <<"\\addplot[red] coordinates { (9,9) } node {n}; % s">>,
                    <<"  \\addplot+ coordinates { (8,8) };">>,
                    <<"\\addplot coordinates {};">> } }

MultiplotDocs ==
    { <<Directive(i, "MULTIPLOT(g) " \o QueryAll)>>
          \o OldEntries(1, n, legend) \o <<"tail">> :
          i \in Indents, n \in 0..MaxOld, legend \in SUBSET (1..MaxOld) }
    \cup
    { <<Directive(i, "MULTIPLOT(g) " \o QueryAll),
        "\\addplot coordinates { (7,7) } node {n};", "tail">> :
          i \in Indents }

\* MULTIPLOT on a result without x, without y, without the group column,
\* without the title or ptitle column, each before an old plot
MultiplotFailDocs ==
    { <<"% MULTIPLOT(" \o cols \o ") " \o query,
        "\\addplot coordinates { (7,7) };", "\\addlegendentry{old};",
        "tail">> :
          cols \in {"g", "h", "g|title", "g|ptitle", "g,h"},
          query \in {QueryAll, QueryNoX, QueryNoY} }

TabularDocs ==
    { <<Directive(i, "TABULAR " \o QueryAll)>> \o old \o <<"tail">> :
          i \in Indents,
          old \in { <<>>,
                    <<"A & 9 & 9 \\\\ \\hline",
                      "% END TABULAR " \o QueryAll>>,
                    <<"A & 9 & 9 \\\\ \\hline", "B & 8 & 8 \\\\[2pt] % two",
                      "% END TABULAR " \o QueryAll>>,
                    <<"A & 9 & 9 \\\\ \\hline", "\\midrule",
                      "B & 8 & 8 \\\\ % two",
                      "% END TABULAR " \o QueryAll>> } }
    \cup
    { <<Directive(i, "TABTABLE " \o QueryG)>> \o old \o <<"tail">> :
          i \in Indents,
          old \in { <<>>,
                    <<"Z\t9", "% END TABTABLE " \o QueryG>> } }

DefmacroDocs ==
    { <<Directive(i, "DEFMACRO " \o QueryAll)>> \o old \o <<"tail">> :
          i \in Indents,
          old \in { <<>>, <<"\\def\\g{old}">> } }

\* the ranges selected on the command line
Selections == { {}, {"r"} }

\* the rows of the table t in the database b
OtherTable == << <<Cell("C"), Cell("8"), Cell("9")>> >>

\* commands inside and outside ranges, and RANGE commands without a name
RangeDocs ==
    { <<"% PLOT " \o QueryAll, "% RANGE BEGIN " \o name,
        "% TEXTTABLE " \o QueryAll, "% a note", "% RANGE END r",
        "% DEFMACRO " \o QueryAll, last>> :
          name \in {"r", "q"},
          last \in {"% RANGE BEGIN", "% RANGE r", "% RANGE OTHER r"} }

\* commands before and after a CONNECT, and databases that cannot be opened
ConnectDocs ==
    { <<"% PLOT " \o QueryAll, "\\addplot coordinates { (9,9) };",
        "% RANGE END r", "% CONNECT " \o conninfo, "% RANGE BEGIN r",
        "% PLOT " \o QueryAll, "tail">> :
          conninfo \in {"SQLite:b", "oracle:b", "pg:c"} }

\* tables of queries of 67 and of 87 characters, and REFORMAT clauses
MarkerDocs ==
    { <<"% " \o keyword \o " " \o query, "tail">> :
          keyword \in {"TEXTTABLE", "TABULAR", "TABTABLE"},
          query \in {QueryWhere, QueryLong} }
    \cup
    { <<"  % TABULAR REFORMAT(precision=1 col 1=(max=bold)) " \o QueryWhere,
        "tail">>,
      <<"% TABTABLE REFORMAT(row 0=(group) width=4) " \o QueryAll, "Z\t9",
        "% END TABTABLE " \o QueryAll, "tail">>,
      <<"% TABULAR REFORMAT(digits=5) " \o QueryAll, "tail">>,
      <<"% TABULAR REFORMAT(precision=1 " \o QueryAll, "tail">> }

\* other commands, a command over several lines, failing statements
OtherDocs ==
    { <<"% SQL " \o QueryAll, "% RANGE BEGIN r", "% a note",
        "  %% TEXTTABLE SELECT", "  %% * FROM t", "tail">>,
      <<"% PLOT " \o QueryAll, "% TEXTTABLE SELECT nothing", "tail">>,
      <<"% SQL DROP nothing", "% PLOT " \o QueryAll>>,
      <<"% DEFMACRO " \o QueryAll, "% TABULAR SELECT nothing">> }

Documents ==
    TexttableDocs \cup PlotDocs \cup MultiplotDocs \cup TabularDocs
        \cup DefmacroDocs \cup OtherDocs \cup RangeDocs \cup ConnectDocs
        \cup MultiplotFailDocs \cup MarkerDocs

(***************************************************************************)
(* The runs of the tool over a document                                    *)
(***************************************************************************)

\* no query, no Reformat, no import
NoQuery == <<>>
NoReformat == <<>>
NoImport == <<>>
NoComment == <<>>

NoCall == [overload |-> "none", before |-> 0, begin |-> 0, end |-> 0,
           indent |-> 0, content |-> <<>>, text |-> ""]

Init ==
    /\ disk \in Documents
    /\ table \in Tables
    /\ wopen = FALSE
    /\ m_lines = <<>>
    /\ ln = 0
    /\ pc = "start"
    /\ runs = 1
    /\ grown = FALSE
    /\ log = <<>>
    /\ tl = <<>>
    /\ tl_call = NoCall
    /\ g_dataindex = 0
    /\ g_datafile = <<>>
    /\ gopt_ranges \in Selections
    /\ active_range = TRUE
    /\ g_db = MainDb
    /\ sqlq = NoQuery
    /\ rf = NoReformat
    /\ imp = NoImport
    /\ collected = NoComment

\* sp_process(): open the input file; sp_process_stream(): read_stream and
\* the detection of the file type; SpLatex::SpLatex(): the flag of the scan
ReadFile ==
    /\ pc = "start"
    /\ m_lines' = disk
    /\ ln' = 0
    /\ pc' = IF filetype(InputFile) = "latex" THEN "scan" ELSE "failed"
    /\ active_range' = (gopt_ranges = {})
    /\ UNCHANGED <<disk, wopen, table, runs, grown, log, others, gopt_ranges,
                   g_db, aside>>

\* the scan loop is in an iteration: ln < m_lines.size()
Scanning == pc = "scan" /\ ln < Len(m_lines) /\ Len(m_lines) < MaxLines

\* the command collect_comment finds at the cursor
cc == collect_comment(comment_char, m_lines, ln)

\* the iteration dispatches the keyword
Dispatch(word) ==
    /\ Scanning
    /\ cc.ok
    /\ first_word(cc.cmd) = word
    /\ word = "RANGE" \/ active_range

\* the rows of the table t in the database the connection is open on
g_db_rows == IF g_db = MainDb THEN table ELSE OtherTable

\* the processor ran: the buffer it left, its message, the cursor after the
\* command lines
Processed(r) ==
    /\ m_lines' = r.lines
    /\ ln' = cc.ln
    /\ log' = Append(log, r.log)
    /\ pc' = scan_outcome(r)
    /\ UNCHANGED <<disk, wopen, table, runs, grown, others, conn, aside>>

\* the iteration changes the cursor alone
Passed ==
    /\ ln' = cc.ln
    /\ UNCHANGED <<disk, wopen, m_lines, pc, table, runs, grown, log, others, conn, aside>>

\* collect_comment fails: the line is no comment
SkipLine == Scanning /\ ~cc.ok /\ Passed

\* a comment whose first word is no keyword
Ignore ==
    /\ Scanning
    /\ cc.ok
    /\ active_range
    /\ first_word(cc.cmd) \notin Keywords
    /\ Passed

\* a command outside the selected ranges is skipped
Inactive ==
    /\ Scanning
    /\ cc.ok
    /\ ~active_range
    /\ first_word(cc.cmd) # "RANGE"
    /\ Passed

\* RANGE BEGIN and RANGE END; std::out_of_range is no std::runtime_error, so
\* the handler of main() does not catch it
DoRange ==
    /\ Dispatch("RANGE")
    /\ ln' = cc.ln
    /\ \E w \in {range_words(cc.cmd)} :
          /\ pc' = IF w.ok THEN "scan" ELSE "terminated"
          /\ active_range' =
                 IF w.ok
                 THEN range_flag(active_range, gopt_ranges, w.second_word,
                                 w.rest_word)
                 ELSE active_range
    /\ UNCHANGED <<disk, wopen, m_lines, table, runs, grown, log, others,
                   gopt_ranges, g_db, aside>>

\* a CONNECT that leaves the connection as it is
DoConnectKept ==
    /\ Dispatch("CONNECT")
    /\ ln' = cc.ln
    /\ \E c \in {g_db_connect(g_db, argument(cc.cmd))} :
          /\ g_db' = g_db
          /\ pc' = IF c.ok THEN "scan" ELSE "failed"
          /\ log' = IF c.ok THEN log ELSE Append(log, Thrown(m_lines).log)
    /\ UNCHANGED <<disk, wopen, m_lines, table, runs, grown, others,
                   gopt_ranges, active_range, aside>>

\* CONNECT: SpLatex::connect, and the exception when it fails
DoConnect ==
    /\ Dispatch("CONNECT")
    /\ ln' = cc.ln
    /\ \E c \in {g_db_connect(g_db, argument(cc.cmd))} :
          /\ g_db' = c.db
          /\ pc' = IF c.ok THEN "scan" ELSE "failed"
          /\ log' = IF c.ok THEN log ELSE Append(log, Thrown(m_lines).log)
    /\ UNCHANGED <<disk, wopen, m_lines, table, runs, grown, others,
                   gopt_ranges, active_range, aside>>

DoSql == Dispatch("SQL") /\ Processed(sql_command(m_lines, g_db_rows, argument(cc.cmd)))

DoTexttable ==
    /\ Dispatch("TEXTTABLE")
    /\ Processed(texttable(m_lines, g_db_rows, cc.ln, cc.indent, argument(cc.cmd)))

DoPlot ==
    /\ Dispatch("PLOT")
    /\ Processed(plot(m_lines, g_db_rows, cc.ln, cc.indent, argument(cc.cmd)))

DoMultiplot ==
    /\ Dispatch("MULTIPLOT")
    /\ Processed(multiplot(m_lines, g_db_rows, cc.ln, cc.indent, cc.cmd))

DoTabular ==
    /\ Dispatch("TABULAR")
    /\ Processed(tabular(m_lines, g_db_rows, cc.ln, cc.indent, argument(cc.cmd),
                         "TABULAR", " & ", " \\\\"))

DoTabtable ==
    /\ Dispatch("TABTABLE")
    /\ Processed(tabular(m_lines, g_db_rows, cc.ln, cc.indent, argument(cc.cmd),
                         "TABTABLE", "\t", ""))

DoDefmacro ==
    /\ Dispatch("DEFMACRO")
    /\ Processed(defmacro(m_lines, g_db_rows, cc.ln, cc.indent, argument(cc.cmd)))

\* the cursor passed the end of the buffer: sp_process_stream returns
EndScan ==
    /\ pc = "scan"
    /\ ln >= Len(m_lines)
    /\ pc' = "finished"
    /\ UNCHANGED <<disk, wopen, m_lines, ln, table, runs, grown, log, others, conn, aside>>

\* the buffer has grown to MaxLines lines and the scan is not at its end:
\* the memory of the run is used up, std::vector throws std::bad_alloc, which
\* is no std::runtime_error, so the handler of main() does not catch it
OutOfMemory ==
    /\ pc = "scan"
    /\ ln < Len(m_lines)
    /\ Len(m_lines) >= MaxLines
    /\ pc' = "exhausted"
    /\ UNCHANGED <<disk, wopen, m_lines, ln, table, runs, grown, log, others, conn, aside>>

\* sp_process(): overwrite the input file with the buffer
WriteBack ==
    /\ pc = "finished"
    /\ wopen' = TRUE
    /\ disk' = m_lines
    /\ pc' = "written"
    /\ UNCHANGED <<m_lines, ln, table, runs, grown, log, others, conn, aside>>

\* the tool is run again on the file it wrote, the database as it was
Rerun ==
    /\ pc = "written"
    /\ runs < MaxRuns
    /\ pc' = "start"
    /\ runs' = runs + 1
    /\ grown' = FALSE
    /\ wopen' = FALSE
    /\ m_lines' = <<>>
    /\ ln' = 0
    /\ log' = <<>>
    /\ g_db' = MainDb
    /\ UNCHANGED <<disk, table, others, gopt_ranges, active_range, aside>>

\* the tool is run again after the table gained a row
RerunGrown ==
    /\ pc = "written"
    /\ runs < MaxRuns
    /\ Len(table) < MaxRows
    /\ \E r \in RowVals : table' = Append(table, r)
    /\ pc' = "start"
    /\ runs' = runs + 1
    /\ grown' = TRUE
    /\ wopen' = FALSE
    /\ m_lines' = <<>>
    /\ ln' = 0
    /\ log' = <<>>
    /\ g_db' = MainDb
    /\ UNCHANGED <<disk, others, gopt_ranges, active_range, aside>>

Next ==
    \/ ReadFile
    \/ SkipLine
    \/ Ignore
    \/ Inactive
    \/ DoRange
    \/ DoConnect
    \/ DoSql
    \/ DoTexttable
    \/ DoPlot
    \/ DoMultiplot
    \/ DoTabular
    \/ DoTabtable
    \/ DoDefmacro
    \/ EndScan
    \/ OutOfMemory
    \/ WriteBack
    \/ Rerun
    \/ RerunGrown

Spec == Init /\ [][Next]_vars

(***************************************************************************)
(* textlines.h alone: the three overloads of replace applied to a buffer   *)
(***************************************************************************)

Buffers == UNION { [1..n -> {"a", " b"}] : n \in 0..MaxBuf }
Contents == { <<>>, <<"x">>, <<"x", " y">> }
ContentStrings == { "", "x", "x\n", "x\n y", "x\n\ny\n", "\n" }

InitTL ==
    /\ tl \in Buffers
    /\ tl_call = NoCall
    /\ g_dataindex = 0
    /\ g_datafile = <<>>
    /\ gopt_ranges = {}
    /\ active_range = TRUE
    /\ g_db = MainDb
    /\ sqlq = NoQuery
    /\ rf = NoReformat
    /\ imp = NoImport
    /\ collected = NoComment
    /\ disk = <<>>
    /\ table = <<>>
    /\ wopen = FALSE
    /\ m_lines = <<>>
    /\ ln = 0
    /\ pc = "unit"
    /\ runs = 1
    /\ grown = FALSE
    /\ log = <<>>

TLUnchanged ==
    UNCHANGED <<disk, wopen, m_lines, ln, pc, table, runs, grown, log,
                g_dataindex, g_datafile, conn, aside>>

\* replace(begin, end, content, desc)
ReplaceLines ==
    /\ tl_call = NoCall
    /\ \E begin \in 0..Len(tl), content \in Contents :
       \E end \in begin..Len(tl) :
           /\ tl' = replace(tl, begin, end, content)
           /\ tl_call' = [overload |-> "lines", before |-> Len(tl),
                          begin |-> begin, end |-> end, indent |-> 0,
                          content |-> content, text |-> ""]
    /\ TLUnchanged

\* replace(begin, end, indent, content, desc), a vector of lines
ReplaceIndented ==
    /\ tl_call = NoCall
    /\ \E begin \in 0..Len(tl), content \in Contents, indent \in Indents :
       \E end \in begin..Len(tl) :
           /\ tl' = replace_indent(tl, begin, end, indent, content)
           /\ tl_call' = [overload |-> "indented", before |-> Len(tl),
                          begin |-> begin, end |-> end, indent |-> indent,
                          content |-> content, text |-> ""]
    /\ TLUnchanged

\* replace(begin, end, indent, content, desc), a string of lines
ReplaceString ==
    /\ tl_call = NoCall
    /\ \E begin \in 0..Len(tl), content \in ContentStrings, indent \in Indents :
       \E end \in begin..Len(tl) :
           /\ tl' = replace_string(tl, begin, end, indent, content)
           /\ tl_call' = [overload |-> "string", before |-> Len(tl),
                          begin |-> begin, end |-> end, indent |-> indent,
                          content |-> <<>>, text |-> content]
    /\ TLUnchanged

NextTL == ReplaceLines \/ ReplaceIndented \/ ReplaceString

SpecTL == InitTL /\ [][NextTL]_vars

(***************************************************************************)
(* gnuplot.cpp: the runs of the Gnuplot tool over a script                 *)
(***************************************************************************)

\* the name of the script
GpInputFile == "doc.gp"

\* a directive line of a script
GpDirective(indent, cmd) == spaces(indent) \o "# " \o cmd

\* the k-th entry of the plot clause of an earlier run, hand-edited
GpOldEntry(k) ==
    IF k = 1 THEN "    '" \o g_datafilename(GpInputFile) \o "' index 0 with lines"
    ELSE "    '" \o g_datafilename(GpInputFile)
             \o "' index 1 title \"mine\" with points"

\* the plot clause of an earlier run with n entries
GpOldClause(n) ==
    IF n = 0 THEN <<>>
    ELSE <<"plot \\">>
             \o [k \in 1..n |->
                    GpOldEntry(k) \o (IF k < n THEN ", \\" ELSE "")]

GpPlotDocs ==
    { <<"set grid", GpDirective(indent, cmd)>> \o GpOldClause(n)
          \o <<"pause -1">> :
          indent \in Indents,
          cmd \in {"PLOT " \o QueryAll, "MULTIPLOT(g) " \o QueryAll},
          n \in 0..MaxOld }

GpOtherDocs ==
    { <<"# SQL " \o QueryAll, "", "# a note", "", "# MACRO " \o QueryAll,
        "g = 'Z'", "x = 0", "set grid">>,
      <<"# PLOT", "# " \o QueryNoY, "", "# MULTIPLOT(g,x) " \o QueryAll>>
          \o GpOldClause(1),
      <<"# PLOT " \o QueryAll, "", "# SQL DROP TABLE t">>,
      <<"# MULTIPLOT(g) " \o QueryNoY>>,
      <<"# MULTIPLOT " \o QueryAll>>,
      <<"# PLOT " \o QueryX, "", "# MULTIPLOT(g) " \o QueryAll, "",
        "# PLOT " \o QueryX>> }

\* a table whose column x is NULL in two rows between two numbers
GpNullTable ==
    << <<Cell("B"), Cell("3"), Cell("4")>>, <<Cell("A"), Null, Cell("5")>>,
       <<Cell("A"), Null, Cell("5")>>, <<Cell("B"), Cell("3"), Cell("4")>> >>

GpDocuments == GpPlotDocs \cup GpOtherDocs

InitGp ==
    /\ disk \in GpDocuments
    /\ table \in Tables \cup {GpNullTable}
    /\ wopen = FALSE
    /\ m_lines = <<>>
    /\ ln = 0
    /\ pc = "start"
    /\ runs = 1
    /\ grown = FALSE
    /\ log = <<>>
    /\ tl = <<>>
    /\ tl_call = NoCall
    /\ g_dataindex = 0
    /\ g_datafile = <<>>
    /\ gopt_ranges = {}
    /\ active_range = TRUE
    /\ g_db = MainDb
    /\ sqlq = NoQuery
    /\ rf = NoReformat
    /\ imp = NoImport
    /\ collected = NoComment

\* sp_gnuplot(): open the script; process_stream(): read_stream, open the
\* datafile, g_dataindex = 0
GpReadFile ==
    /\ pc = "start"
    /\ m_lines' = disk
    /\ ln' = 0
    /\ g_dataindex' = 0
    /\ g_datafile' = <<>>
    /\ pc' = "scan"
    /\ UNCHANGED <<disk, wopen, table, runs, grown, log, tl, tl_call, conn, aside>>

\* process_stream(): the datafile cannot be opened, the script is left as
\* it was read
GpNoDatafile ==
    /\ pc = "start"
    /\ m_lines' = disk
    /\ ln' = 0
    /\ pc' = "finished"
    /\ UNCHANGED <<disk, wopen, table, runs, grown, log, others, conn, aside>>

\* process() is in an iteration of its loop
GpScanning == pc = "scan" /\ ln < Len(m_lines)

\* the command collected at the cursor
gcc == gp_collect(m_lines, ln)

GpDispatch(word) == GpScanning /\ gcc.ok /\ first_word(gcc.cmd) = word

\* the processor ran; an exception reaches the handler of main()
GpProcessed(r) ==
    /\ m_lines' = r.lines
    /\ ln' = gcc.ln
    /\ log' = Append(log, r.log)
    /\ pc' = IF r.thrown THEN "failed" ELSE "scan"
    /\ g_dataindex' = r.dataindex
    /\ g_datafile' = r.datafile
    /\ UNCHANGED <<disk, wopen, table, runs, grown, tl, tl_call, conn, aside>>

GpPassed ==
    /\ ln' = gcc.ln
    /\ UNCHANGED <<disk, wopen, m_lines, pc, table, runs, grown, log, others, conn, aside>>

\* the line is no comment
GpSkipLine == GpScanning /\ ~gcc.ok /\ GpPassed

\* a comment whose first word is no keyword; the scripts hold no
\* IMPORT-DATA command
GpIgnore ==
    GpScanning /\ gcc.ok /\ first_word(gcc.cmd) \notin GpKeywords /\ GpPassed

GpSql ==
    /\ GpDispatch("SQL")
    /\ GpProcessed(process_sql(m_lines, table, argument(gcc.cmd), g_dataindex,
                               g_datafile))

GpPlot ==
    /\ GpDispatch("PLOT")
    /\ GpProcessed(process_plot(m_lines, table, GpInputFile, gcc.ln,
                                gcc.indent, argument(gcc.cmd), g_dataindex,
                                g_datafile))

GpMultiplot ==
    /\ GpDispatch("MULTIPLOT")
    /\ GpProcessed(process_multiplot(m_lines, table, GpInputFile, gcc.ln,
                                     gcc.indent, gcc.cmd, g_dataindex,
                                     g_datafile))

GpMacro ==
    /\ GpDispatch("MACRO")
    /\ GpProcessed(process_macro(m_lines, table, gcc.ln, gcc.indent,
                                 argument(gcc.cmd), g_dataindex, g_datafile))

\* process() returns
GpEndScan ==
    /\ pc = "scan"
    /\ ln >= Len(m_lines)
    /\ pc' = "finished"
    /\ UNCHANGED <<disk, wopen, m_lines, ln, table, runs, grown, log, others, conn, aside>>

\* sp_gnuplot(): overwrite the script with the buffer
GpWriteBack ==
    /\ pc = "finished"
    /\ wopen' = TRUE
    /\ disk' = m_lines
    /\ pc' = "written"
    /\ UNCHANGED <<m_lines, ln, table, runs, grown, log, others, conn, aside>>

\* the tool is run again on the script it wrote
GpRerun ==
    /\ pc = "written"
    /\ runs < MaxRuns
    /\ pc' = "start"
    /\ runs' = runs + 1
    /\ wopen' = FALSE
    /\ m_lines' = <<>>
    /\ ln' = 0
    /\ log' = <<>>
    /\ UNCHANGED <<disk, table, grown, others, conn, aside>>

NextGp ==
    \/ GpReadFile
    \/ GpNoDatafile
    \/ GpSkipLine
    \/ GpIgnore
    \/ GpSql
    \/ GpPlot
    \/ GpMultiplot
    \/ GpMacro
    \/ GpEndScan
    \/ GpWriteBack
    \/ GpRerun

SpecGp == InitGp /\ [][NextGp]_vars

(***************************************************************************)
(* sql.h, sqlite.cpp, mysql.cpp: a query of a cursor-only engine.  The     *)
(* statement hands out the rows of its result one by one; SqlDataCache     *)
(* reads them into m_table.                                                *)
(***************************************************************************)

\* MySqlColumn: char strdata[128]
StrDataSize == 128

\* bounds of the results and of the calls on a query
MaxResultRows == 2
MaxCalls == 2

RECURSIVE repeated(_, _)
repeated(str, n) ==
    IF n <= 0 THEN ""
    ELSE IF n % 2 = 0 THEN repeated(str \o str, n \div 2)
    ELSE str \o repeated(str, n - 1)

\* the cells of a result: NULL, the empty text, a short text, a text that
\* fills strdata and a text one byte longer
ResultCells ==
    { Null, Cell(""), Cell("a"), Cell(repeated("b", StrDataSize)),
      Cell(repeated("c", StrDataSize + 1)) }

\* the results of two columns
Results == UNION { [1..n -> [1..2 -> ResultCells]] : n \in 0..MaxResultRows }

\* SQLiteQuery::SQLiteQuery: prepare and the first sqlite3_step;
\* MySqlQuery::MySqlQuery and execute(): prepare, execute, bind the results
NewQuery(engine, result, report) ==
    [engine |-> engine, result |-> result, report |-> report,
     m_row |-> IF engine = "sqlite" /\ Len(result) = 0 THEN -2 ELSE -1,
     pos |-> IF engine = "sqlite" /\ Len(result) > 0 THEN 1 ELSE 0,
     fetches |-> IF engine = "sqlite" THEN 1 ELSE 0,
     ended |-> FALSE, m_complete |-> FALSE, m_table |-> <<>>,
     calls |-> 0, steps |-> 0, rows_seen |-> -1, asserted |-> FALSE]

\* a value of the row does not fit into strdata
TooLong(row) ==
    \E col \in 1..Len(row) :
        ~row[col].isnull /\ Len(row[col].text) > StrDataSize

\* SQLiteQuery::step()
sqlite_step(q) ==
    IF q.m_row = -1 THEN [ok |-> TRUE, q |-> [q EXCEPT !.m_row = 0]]
    ELSE IF q.m_row = -2 THEN [ok |-> FALSE, q |-> [q EXCEPT !.ended = TRUE]]
    ELSE IF q.pos < Len(q.result)
    THEN [ok |-> TRUE,
          q |-> [q EXCEPT !.m_row = @ + 1, !.pos = @ + 1, !.fetches = @ + 1]]
    ELSE [ok |-> FALSE,
          q |-> [q EXCEPT !.m_row = @ + 1, !.fetches = @ + 1,
                          !.ended = TRUE]]

\* MySqlQuery::step(): mysql_stmt_fetch returns MYSQL_NO_DATA behind the last
\* row, and MYSQL_DATA_TRUNCATED for a value longer than the buffer when the
\* client library reports truncation
mysql_step(q) ==
    IF q.pos < Len(q.result)
    THEN IF TooLong(q.result[q.pos + 1]) /\ q.report
         THEN [ok |-> FALSE,
               q |-> [q EXCEPT !.m_row = @ + 1, !.pos = @ + 1,
                               !.fetches = @ + 1, !.ended = TRUE]]
         ELSE [ok |-> TRUE,
               q |-> [q EXCEPT !.m_row = @ + 1, !.pos = @ + 1,
                               !.fetches = @ + 1]]
    ELSE [ok |-> FALSE,
          q |-> [q EXCEPT !.m_row = @ + 1, !.fetches = @ + 1, !.ended = TRUE]]

\* step() of the engine of the query
step(q) == IF q.engine = "sqlite" THEN sqlite_step(q) ELSE mysql_step(q)

\* isNULL(col) of the current row
cursor_isNULL(q, col) == q.result[q.pos][col + 1].isnull

\* text(col) of the current row; MySqlQuery::text builds the string from
\* strdata and the length of the value, so a value that was cut to the
\* buffer comes with the bytes behind the buffer
cursor_text(q, col) ==
    LET str == q.result[q.pos][col + 1].text
    IN  IF q.engine = "mysql" /\ Len(str) > StrDataSize
        THEN substr_n(str, 0, StrDataSize)
                 \o repeated("?", Len(str) - StrDataSize)
        ELSE str

\* read_complete(): the row pushed for the current row of the cursor
cache_row(q) ==
    [col \in 1..Len(q.result[q.pos]) |->
        IF cursor_isNULL(q, col - 1) THEN [isnull |-> TRUE, text |-> ""]
        ELSE [isnull |-> FALSE, text |-> cursor_text(q, col - 1)]]

\* SqlDataCache::read_complete(): the loop while (sql.step())
RECURSIVE read_rows(_)
read_rows(q) ==
    LET s == step(q)
    IN  IF s.ok
        THEN read_rows([s.q EXCEPT !.m_table = Append(@, cache_row(s.q))])
        ELSE [s.q EXCEPT !.m_complete = TRUE]

\* SqlDataCache::read_complete()
read_complete(q) == IF q.m_complete THEN q ELSE read_rows(q)

\* the engines, and whether the client library of MySQL reports truncation
InitSql ==
    /\ \E engine \in {"sqlite", "mysql"}, result \in Results,
          report \in BOOLEAN :
           /\ engine = "sqlite" => report
           /\ sqlq = NewQuery(engine, result, report)
    /\ disk = <<>>
    /\ table = <<>>
    /\ wopen = FALSE
    /\ m_lines = <<>>
    /\ ln = 0
    /\ pc = "start"
    /\ runs = 1
    /\ grown = FALSE
    /\ log = <<>>
    /\ tl = <<>>
    /\ tl_call = NoCall
    /\ g_dataindex = 0
    /\ g_datafile = <<>>
    /\ gopt_ranges = {}
    /\ active_range = TRUE
    /\ g_db = MainDb
    /\ rf = NoReformat
    /\ imp = NoImport
    /\ collected = NoComment

SqlUnchanged ==
    UNCHANGED <<disk, wopen, m_lines, ln, pc, table, runs, grown, log,
                others, conn, rf, imp, collected>>

\* the caller calls read_complete()
SqlReadComplete ==
    /\ ~sqlq.asserted
    /\ sqlq.calls < MaxCalls
    /\ sqlq' = [read_complete(sqlq) EXCEPT !.calls = @ + 1]
    /\ SqlUnchanged

\* the caller reads the result in one pass: step() until it returns false
SqlStep ==
    /\ ~sqlq.asserted
    /\ ~sqlq.m_complete
    /\ ~sqlq.ended
    /\ sqlq' = [step(sqlq).q EXCEPT !.steps = @ + 1]
    /\ SqlUnchanged

\* the caller calls num_rows(): the assertion fails without the cache
SqlNumRows ==
    /\ ~sqlq.asserted
    /\ sqlq.rows_seen = -1
    /\ sqlq' = IF sqlq.m_complete
               THEN [sqlq EXCEPT !.rows_seen = Len(sqlq.m_table)]
               ELSE [sqlq EXCEPT !.asserted = TRUE]
    /\ SqlUnchanged

NextSql == SqlReadComplete \/ SqlStep \/ SqlNumRows

SpecSql == InitSql /\ [][NextSql]_vars

(***************************************************************************)
(* reformat.cpp: a Reformat on its own.  A query with a REFORMAT clause is  *)
(* parsed, the result of the query is prepared, a cell is formatted, as     *)
(* tabular() and defmacro() do it.                                          *)
(***************************************************************************)

\* the formats of the clause: one for row 0, one for column 0, one default
FormatSettings ==
    {"", "floor", "round=1", "precision=2", "precision=0", "width=9",
     "digits=3", "group", "group=()", "group=(.)", "max=bold", "max=emph",
     "max", "min=bold", "bogus"}

\* the default formats of the clause: the digits modes and a doubled '='
\* as well
DefaultSettings ==
    FormatSettings
        \cup {"group==.", "digits=2", "digits=4", "digits=5", "digits=-1",
              "precision=x", "max=red"}

\* the results of the query, two rows of two columns; the third one has no
\* positive number
FormatResults ==
    { [ok |-> TRUE, cols |-> <<"a", "b">>,
       rows |-> << <<Cell("1234567"), Cell("2.5")>>,
                   <<Cell("0.5"), Cell("50")>> >>],
      [ok |-> TRUE, cols |-> <<"a", "b">>,
       rows |-> << <<Cell("50"), Cell("-2.5")>>,
                   <<Cell("1234567"), Cell("n/a")>> >>],
      [ok |-> TRUE, cols |-> <<"a", "b">>,
       rows |-> << <<Cell("-3"), Cell("0")>>,
                   <<Cell("-1.5"), Cell("0")>> >>],
      [ok |-> TRUE, cols |-> <<"a", "b">>,
       rows |-> << <<Cell("5"), Cell("500")>>,
                   <<Cell("0.05"), Cell("9.999")>> >>] }

\* the text of the selector of a row or a column format
Selector(kind, setting) ==
    IF setting = "" THEN "" ELSE kind \o " 0=(" \o setting \o ") "

\* the argument of the TABULAR command
FormatQuery(rowset, colset, defset, colfirst) ==
    "REFORMAT("
        \o (IF colfirst
            THEN Selector("col", colset) \o Selector("row", rowset)
            ELSE Selector("row", rowset) \o Selector("col", colset))
        \o defset \o ") " \o QueryAll

\* arguments without a clause, with a clause that lacks a parenthesis, with
\* a clause that names no rows or columns
PlainQueries == {QueryAll, " " \o QueryAll}
NoParentheses == {"REFORMAT floor) " \o QueryAll, "REFORMAT"}
Unbalanced ==
    {"REFORMAT(floor " \o QueryAll, "REFORMAT(col 0=(floor " \o QueryAll,
     "REFORMAT(floor"}
InvalidRanges ==
    {"REFORMAT(col 1-0=(floor)) " \o QueryAll,
     "REFORMAT(row 1-=(floor)) " \o QueryAll,
     "REFORMAT(row x=(floor)) " \o QueryAll,
     "REFORMAT(col 0;1=(floor)) " \o QueryAll}
OtherArguments ==
    PlainQueries \cup NoParentheses \cup Unbalanced \cup InvalidRanges

\* the arguments of the command for the chosen formats
Arguments(rowset, colset, defset, colfirst) ==
    IF rowset = "" /\ colset = "" /\ defset = "" /\ colfirst
    THEN {FormatQuery(rowset, colset, defset, colfirst)} \cup OtherArguments
    ELSE {FormatQuery(rowset, colset, defset, colfirst)}

\* cmdline is the argument of the command, query the local variable of
\* tabular() that parse_query() changes, executed the text that was handed
\* to g_db->query(), none before that
NotExecuted == <<>>

InitFmt ==
    /\ \E rowset \in FormatSettings, colset \in FormatSettings,
          defset \in DefaultSettings, colfirst \in BOOLEAN,
          result \in FormatResults :
       \E cmdline \in Arguments(rowset, colset, defset, colfirst) :
           rf = [pc |-> "parse", rowset |-> rowset, colset |-> colset,
                 defset |-> defset, colfirst |-> colfirst,
                 cmdline |-> cmdline, query |-> cmdline,
                 executed |-> NotExecuted,
                 sql |-> result, reformat |-> NewReformat,
                 row |-> 0, col |-> 0, out |-> ""]
    /\ disk = <<>>
    /\ table = <<>>
    /\ wopen = FALSE
    /\ m_lines = <<>>
    /\ ln = 0
    /\ pc = "start"
    /\ runs = 1
    /\ grown = FALSE
    /\ log = <<>>
    /\ tl = <<>>
    /\ tl_call = NoCall
    /\ g_dataindex = 0
    /\ g_datafile = <<>>
    /\ gopt_ranges = {}
    /\ active_range = TRUE
    /\ g_db = MainDb
    /\ sqlq = NoQuery
    /\ imp = NoImport
    /\ collected = NoComment

FmtUnchanged ==
    UNCHANGED <<disk, wopen, m_lines, ln, pc, table, runs, grown, log,
                others, conn, sqlq, imp, collected>>

\* reformat.parse_query(query): the clause is parsed and removed, or the
\* exception ends the run
FmtParseQuery ==
    /\ rf.pc = "parse"
    /\ \E parsed \in {parse_query(rf.query)} :
           rf' = [rf EXCEPT !.reformat = parsed.reformat,
                            !.query = parsed.query,
                            !.pc = IF parsed.reformat.thrown THEN "failed"
                                   ELSE "prepare"]
    /\ FmtUnchanged

\* sql = g_db->query(query), sql->read_complete() and
\* reformat.prepare(sql)
FmtPrepare ==
    /\ rf.pc = "prepare"
    /\ rf' = [rf EXCEPT !.executed = <<rf.query>>,
                        !.reformat = prepare(rf.reformat, rf.sql),
                        !.pc = "format"]
    /\ FmtUnchanged

\* reformat.format(row, col, sql->text(row, col)) for a cell of the result
FmtFormat ==
    /\ rf.pc = "format"
    /\ \E row \in 0..(num_rows(rf.sql) - 1), col \in 0..(num_cols(rf.sql) - 1) :
       \E done \in {format(rf.reformat, row, col, text(rf.sql, row, col))} :
           rf' = [rf EXCEPT !.row = row, !.col = col, !.out = done.text,
                            !.pc = IF done.thrown THEN "failed" ELSE "done"]
    /\ FmtUnchanged

NextFmt == FmtParseQuery \/ FmtPrepare \/ FmtFormat

SpecFmt == InitFmt /\ [][NextFmt]_vars

(***************************************************************************)
(* fieldset.cpp and importdata.cpp: the importer adds the fields of the   *)
(* lines it reads to its FieldSet and creates the table from it.           *)
(***************************************************************************)

\* enum fieldtype: larger ones are more specific
T_NONE == 0
T_VARCHAR == 1
T_DOUBLE == 2
T_INTEGER == 3

\* FieldSet::detect(str), the part behind the decimal point
detect_exponent(str, it) ==
    IF skip_digits(str, IF At(str, it) \in {"+", "-"} THEN it + 1 ELSE it)
           = Len(str)
    THEN T_DOUBLE
    ELSE T_VARCHAR

detect_fraction(str, it) ==
    IF it = Len(str) THEN T_DOUBLE
    ELSE IF At(str, it) \in {"e", "E"} THEN detect_exponent(str, it + 1)
    ELSE T_VARCHAR

detect_digits(str, it) ==
    IF it = Len(str) /\ it # 0 THEN T_INTEGER
    ELSE IF At(str, it) = "." THEN detect_fraction(str, skip_digits(str, it + 1))
    ELSE T_VARCHAR

\* a faulty detect() that takes every string for text
detect_text(str) == T_VARCHAR

\* FieldSet::detect(str)
detect(str) ==
    detect_digits(str,
        skip_digits(str, IF At(str, 0) \in {"+", "-"} THEN 1 ELSE 0))

\* the place of the first entry of the key in the field set, 0 for none
field_index(fieldset, key) ==
    IF \E i \in 1..Len(fieldset) : fieldset[i].first = key
    THEN CHOOSE i \in 1..Len(fieldset) :
             /\ fieldset[i].first = key
             /\ \A k \in 1..(i - 1) : fieldset[k].first # key
    ELSE 0

\* add_field(): the entry fi of the key takes the type t
add_field_at(fieldset, fi, key, t) ==
    IF fi = 0 THEN Append(fieldset, [first |-> key, second |-> t])
    ELSE IF fieldset[fi].second > t
    THEN [fieldset EXCEPT ![fi].second = t]
    ELSE fieldset

\* a faulty add_field() that takes the type of the last value
add_field_last(fieldset, key, value) ==
    IF field_index(fieldset, key) = 0
    THEN Append(fieldset, [first |-> key, second |-> detect(value)])
    ELSE [fieldset EXCEPT ![field_index(fieldset, key)].second = detect(value)]

\* FieldSet::add_field(key, value)
add_field(fieldset, key, value) ==
    add_field_at(fieldset, field_index(fieldset, key), key, detect(value))

\* the databases, SqlDatabase::db_type
DbTypes == {"DB_PGSQL", "DB_MYSQL", "DB_SQLITE"}

\* g_db->exist_table(m_tablename): MySqlDatabase answers false, the others
\* ask the database with a query, which throws when it fails
exist_table(db_type) ==
    IF db_type = "DB_MYSQL" THEN {"false"} ELSE {"false", "true", "thrown"}

\* a faulty handler that retries on every database
catch_retry_always(db_type) == TRUE

\* create_table(): the handler of a failed CREATE TABLE drops the table and
\* retries on MySQL, and throws again on the others
catch_retry(db_type) == db_type = "DB_MYSQL"

\* the keys and the values of the lines of the import
ImpKeys == {"a", "b"}
ImpValues ==
    {"1234", "1234.3", ".3e-3", "1234,3", "sdfdf", "", "+", "-", "-12", "+7",
     ".", "-.", "1.", "-1.5", "1.5e", "1.5e-", "1.5e+10", "1.5E3", "1e5",
     "12a", "e5", ".e3", "1.5e3x", "--1", "1.5.2", " 1", "1 ", "007"}

\* the number of add_field calls of an import
MaxAdds == 3

\* a statement the importer executed and whether it succeeded
Executed(stmt, ok) == [stmt |-> stmt, ok |-> ok]

InitImp ==
    /\ \E db_type \in DbTypes, append \in BOOLEAN :
           imp = [pc |-> "lines", type |-> db_type,
                  mopt_append_data |-> append,
                  m_fieldset |-> <<>>, added |-> <<>>,
                  key |-> "", value |-> "", executed |-> <<>>]
    /\ disk = <<>>
    /\ table = <<>>
    /\ wopen = FALSE
    /\ m_lines = <<>>
    /\ ln = 0
    /\ pc = "start"
    /\ runs = 1
    /\ grown = FALSE
    /\ log = <<>>
    /\ tl = <<>>
    /\ tl_call = NoCall
    /\ g_dataindex = 0
    /\ g_datafile = <<>>
    /\ gopt_ranges = {}
    /\ active_range = TRUE
    /\ g_db = MainDb
    /\ sqlq = NoQuery
    /\ rf = NoReformat
    /\ collected = NoComment

ImpUnchanged ==
    UNCHANGED <<disk, wopen, m_lines, ln, pc, table, runs, grown, log,
                others, conn, sqlq, rf, collected>>

\* process_line(): m_fieldset.add_field(key, value) for a field of a line;
\* added keeps the key and the type detected for the value of every call
ImpAddField ==
    /\ imp.pc = "lines"
    /\ Len(imp.added) < MaxAdds
    /\ \E key \in ImpKeys, value \in ImpValues :
           imp' = [imp EXCEPT
                      !.m_fieldset = add_field(@, key, value),
                      !.added = Append(@, [key |-> key,
                                           type |-> detect(value)]),
                      !.key = key, !.value = value]
    /\ ImpUnchanged

\* create_table(): g_db->exist_table(m_tablename); a table that exists is
\* kept when the data is appended, else it is dropped
ImpExistTable ==
    /\ imp.pc = "lines"
    /\ \E found \in exist_table(imp.type) :
           imp' = [imp EXCEPT
                      !.pc = IF found = "thrown" THEN "failed"
                             ELSE IF found = "false" THEN "create"
                             ELSE IF imp.mopt_append_data THEN "done"
                             ELSE "drop"]
    /\ ImpUnchanged

\* create_table(): g_db->execute("DROP TABLE ...") of the table that exists
ImpDrop ==
    /\ imp.pc = "drop"
    /\ \E ok \in BOOLEAN :
           imp' = [imp EXCEPT
                      !.executed = Append(@, Executed("DROP", ok)),
                      !.pc = IF ok THEN "create" ELSE "failed"]
    /\ ImpUnchanged

\* create_table(): g_db->execute(createtable) in the try block
ImpCreate ==
    /\ imp.pc = "create"
    /\ \E ok \in BOOLEAN :
           imp' = [imp EXCEPT
                      !.executed = Append(@, Executed("CREATE", ok)),
                      !.pc = IF ok THEN "done"
                             ELSE IF catch_retry(imp.type) THEN "handler"
                             ELSE "failed"]
    /\ ImpUnchanged

\* create_table(): g_db->execute("DROP TABLE ...") in the handler
ImpHandlerDrop ==
    /\ imp.pc = "handler"
    /\ \E ok \in BOOLEAN :
           imp' = [imp EXCEPT
                      !.executed = Append(@, Executed("DROP", ok)),
                      !.pc = IF ok THEN "retry" ELSE "failed"]
    /\ ImpUnchanged

\* create_table(): g_db->execute(createtable) in the handler
ImpHandlerCreate ==
    /\ imp.pc = "retry"
    /\ \E ok \in BOOLEAN :
           imp' = [imp EXCEPT
                      !.executed = Append(@, Executed("CREATE", ok)),
                      !.pc = IF ok THEN "done" ELSE "failed"]
    /\ ImpUnchanged

NextImp ==
    \/ ImpAddField
    \/ ImpExistTable
    \/ ImpDrop
    \/ ImpCreate
    \/ ImpHandlerDrop
    \/ ImpHandlerCreate

SpecImp == InitImp /\ [][NextImp]_vars

(***************************************************************************)
(* textlines.h alone: the loop that collects the comments of a buffer, as  *)
(* the scan loops of latex.cpp and gnuplot.cpp run it                      *)
(***************************************************************************)

\* the lines of the buffers
CommentLines ==
    {"x", "", "% A", "  % A ", "%% B", "%% C ", "  %% B", "  %%C", "%", "%%",
     "\t%% D", " x % A", "%%% E"}

\* the number of lines of a buffer
MaxComments == 3

InitCc ==
    /\ m_lines \in UNION { [1..n -> CommentLines] : n \in 1..MaxComments }
    /\ ln = 0
    /\ collected = NoComment
    /\ disk = <<>>
    /\ table = <<>>
    /\ wopen = FALSE
    /\ pc = "unit"
    /\ runs = 1
    /\ grown = FALSE
    /\ log = <<>>
    /\ tl = <<>>
    /\ tl_call = NoCall
    /\ g_dataindex = 0
    /\ g_datafile = <<>>
    /\ gopt_ranges = {}
    /\ active_range = TRUE
    /\ g_db = MainDb
    /\ sqlq = NoQuery
    /\ rf = NoReformat
    /\ imp = NoImport

\* while (ln < size()) collect_comment(ln, cmd, indent): the call, with the
\* line it started at
CcCollect ==
    /\ ln < Len(m_lines)
    /\ \E r \in {collect_comment(comment_char, m_lines, ln)} :
           /\ collected' = [ok |-> r.ok, from |-> ln, cmd |-> r.cmd,
                            indent |-> r.indent]
           /\ ln' = r.ln
    /\ UNCHANGED <<disk, wopen, m_lines, pc, table, runs, grown, log,
                   others, conn, sqlq, rf, imp>>

NextCc == CcCollect

SpecCc == InitCc /\ [][NextCc]_vars

(***************************************************************************)
(* The properties                                                          *)
(***************************************************************************)

Last(seq) == seq[Len(seq)]
HasError(messages) == \E i \in 1..Len(messages) : messages[i].what = "error"
HasSplice(messages, desc) ==
    \E i \in 1..Len(messages) :
        /\ messages[i].desc = desc
        /\ messages[i].what \in {"Inserting", "Replace"}

\* C1: a run over the file the previous run wrote, the database unchanged,
\* ends with a buffer that is identical to that file
C1_Idempotent ==
    (pc = "finished" /\ runs > 1 /\ ~grown) => m_lines = disk

\* C2: once a processor has raised a fatal error in a run, no step of that
\* run changes the input file or opens it for writing; the file is opened
\* for writing and overwritten only by the step that follows a scan which
\* passed the end of the buffer without an error
C2_WriteOnlyAfterScan ==
    [][ /\ HasError(log') => (disk' = disk /\ ~wopen')
        /\ (disk' # disk \/ (wopen' /\ ~wopen)) =>
               (pc = "finished" /\ ln >= Len(m_lines) /\ ~HasError(log)) ]_vars

\* a run failed in the middle of the document, after an earlier directive
\* had changed the buffer
C2_MidDocumentFailure ==
    /\ pc = "failed"
    /\ HasError(log)
    /\ HasSplice(log, "PLOT")
    /\ m_lines # disk
    /\ ~wopen

\* C3: every scan ends in DONE or FAILED: no scan goes on, one iteration
\* after the other and the cursor never past the end of the growing buffer,
\* until the memory is used up
C3_ScanEnds == pc # "exhausted"

\* the number of lines std::getline reads from a string: the newline
\* characters, and one more for a last line that has none
CountLines(str) ==
    Cardinality({i \in 0..(Len(str) - 1) : At(str, i) = "\n"})
        + (IF Len(str) > 0 /\ At(str, Len(str) - 1) # "\n" THEN 1 ELSE 0)

\* C4: after replace(begin, end, ...) the number of lines has changed by
\* the number of lines of the content minus (end - begin), for the three
\* overloads
C4_LineCount ==
    tl_call.overload # "none" =>
        Len(tl) = tl_call.before
                    + (IF tl_call.overload = "string"
                       THEN CountLines(tl_call.text)
                       ELSE Len(tl_call.content))
                    - (tl_call.end - tl_call.begin)

\* a string of three lines took the place of two lines
C4_StringReplaced ==
    /\ tl_call.overload = "string"
    /\ tl_call.text = "x\n\ny\n"
    /\ tl_call.end = tl_call.begin + 2
    /\ Len(tl) = tl_call.before + 1

\* C5: MULTIPLOT never ends in the failed assertion
\* coordlist.size() == legendlist.size(), whichever rows are skipped
C5_SkippingNotFatal == pc # "aborted"

\* the lines that match re_line behind line b of a buffer, when line b
\* begins a plot clause
OldEntryCount(lines, b) ==
    IF b < Len(lines) /\ re_plot(line(lines, b))
    THEN CHOOSE k \in 0..(Len(lines) - b - 1) :
             /\ \A i \in 1..k : re_line(line(lines, b + i)).ok
             /\ b + k + 1 < Len(lines) => ~re_line(line(lines, b + k + 1)).ok
    ELSE 0

\* the number of datasets of the command: one for PLOT, the runs of rows
\* with the same g for MULTIPLOT(g)
DatasetCount(desc, rows) ==
    IF desc = "PLOT" THEN 1
    ELSE Cardinality({ i \in 1..Len(rows) :
                           i = 1 \/ rows[i][1].text # rows[i - 1][1].text })

\* PLOT or MULTIPLOT(g) of all columns rewrote the plot clause
PlotRewritten ==
    /\ pc = "scan"
    /\ Len(log') = Len(log) + 1
    /\ Last(log').desc \in {"PLOT", "MULTIPLOT"}
    /\ Last(log').what \in {"Inserting", "Replace"}
    /\ gcc.cmd \in {"PLOT " \o QueryAll, "MULTIPLOT(g) " \o QueryAll}

\* C6: after gnuplot_plot_rewrite the plot line is followed by exactly one
\* entry for each dataset, in the order of the datasets, the properties of
\* the old entry at the same position carried over, and no entry of the old
\* clause is left behind the new one
C6_OneEntryPerDataset ==
    [][PlotRewritten =>
           \E b \in {Last(log').begin},
              d \in {DatasetCount(Last(log').desc, table)},
              k \in {OldEntryCount(m_lines, Last(log').begin)} :
               /\ Len(m_lines') = Len(m_lines) - (IF k = 0 THEN 0 ELSE k + 1)
                                      + d + 1
               /\ starts_at(line(m_lines', b), "plot",
                            skip_blank(line(m_lines', b), 0))
               /\ \A i \in 0..(d - 1) :
                      \E new \in {line(m_lines', b + 1 + i)} :
                          /\ starts_at(new,
                                 "'" \o g_datafilename(GpInputFile)
                                     \o "' index " \o itoa(g_dataindex + i)
                                     \o " ",
                                 skip_blank(new, 0))
                          /\ i < k =>
                                 find(new, re_line(line(m_lines, b + 1 + i)).m1,
                                      0) # npos
               /\ b + d + 1 < Len(m_lines') =>
                      ~re_line(line(m_lines', b + d + 1)).ok]_vars

\* a line whose first character after the blanks is the comment character
IsCommentLine(str) ==
    \E k \in 0..(Len(str) - 1) :
        /\ At(str, k) = "%"
        /\ \A j \in 0..(k - 1) : At(str, j) \in {" ", "\t"}

\* a comment line whose text, after white space, begins with "END <keyword>"
IsEndMarker(str, keyword) ==
    \E k \in 0..(Len(str) - 1) :
        /\ At(str, k) = "%"
        /\ \A j \in 0..(k - 1) : At(str, j) \in {" ", "\t"}
        /\ \E m \in (k + 1)..Len(str) :
               /\ \A j \in (k + 1)..(m - 1) : At(str, j) \in {" ", "\t"}
               /\ starts_at(str, "END " \o keyword, m)

\* the index of the first comment line at or after b, or -1
FirstCommentFrom(lines, b) ==
    IF \E i \in b..(Len(lines) - 1) : IsCommentLine(line(lines, i))
    THEN CHOOSE i \in b..(Len(lines) - 1) :
             /\ IsCommentLine(line(lines, i))
             /\ \A j \in b..(i - 1) : ~IsCommentLine(line(lines, j))
    ELSE -1

\* a line of a box table: after the blanks a "+" or a "|"
IsBoxLine(str) == At(str, skip_blank(str, 0)) \in {"+", "|"}

\* the step is the splice of the processor that logs desc
SpliceOf(desc) ==
    /\ pc = "scan"
    /\ Len(log') = Len(log) + 1
    /\ Last(log').desc = desc
    /\ Last(log').what \in {"Inserting", "Replace"}

\* a TEXTTABLE directive is dispatched and its processor returns
TexttableDone == SpliceOf("TEXTTABLE")

\* what C7 says of the step, b the line after the directive, e the first
\* comment line from there, nt the lines of the box table
TexttableEffect ==
    \E b \in {Last(log').begin} :
    \E e \in {FirstCommentFrom(m_lines, b)} :
    \E marked \in {e >= 0 /\ IsEndMarker(line(m_lines, e), "TEXTTABLE")} :
    \E old_end \in {IF marked THEN e + 1 ELSE b} :
    \E nt \in {Len(table) + 4} :
        /\ Len(m_lines') = Len(m_lines) - (old_end - b) + nt + 1
        /\ SubSeq(m_lines', 1, b) = SubSeq(m_lines, 1, b)
        /\ SubSeq(m_lines', b + nt + 2, Len(m_lines'))
               = SubSeq(m_lines, old_end + 1, Len(m_lines))
        /\ \A i \in b..(b + nt - 1) : IsBoxLine(line(m_lines', i))
        /\ IsEndMarker(line(m_lines', b + nt), "TEXTTABLE")
        /\ (marked /\ runs > 1 /\ ~grown) => m_lines' = m_lines
        /\ (marked /\ runs > 1 /\ grown) =>
               /\ Len(m_lines') = Len(m_lines) + 1
               /\ b + nt = e + 1

\* C7: TEXTTABLE replaces the lines up to the END TEXTTABLE marker, when
\* that is the first comment line after the directive, by the box table and
\* a new marker, and inserts them otherwise, removing no line; the same
\* result leaves the document as it is, a result with one more row moves
\* the marker down by one line, the lines after the block stay
C7_Texttable == [][TexttableDone => TexttableEffect]_vars

\* a second run, after the table gained a row, has replaced the block
C7_TableGrown ==
    /\ runs > 1
    /\ grown
    /\ pc = "finished"
    /\ Len(m_lines) = Len(disk) + 1
    /\ \E i \in 1..Len(log) :
           log[i].what = "Replace" /\ log[i].desc = "TEXTTABLE"

\* the number of blanks a line begins with
Lead(str) ==
    IF \E k \in 0..(Len(str) - 1) : At(str, k) \notin {" ", "\t"}
    THEN CHOOSE k \in 0..(Len(str) - 1) :
             /\ At(str, k) \notin {" ", "\t"}
             /\ \A j \in 0..(k - 1) : At(str, j) \in {" ", "\t"}
    ELSE Len(str)

\* str ends with the text tail
EndsWith(str, tail) ==
    Len(str) >= Len(tail) /\ substr(str, Len(str) - Len(tail)) = tail

\* the first "}" at or after position i of a line, or the length of the line
Closing(str, i) ==
    IF \E k \in i..(Len(str) - 1) : At(str, k) = "}"
    THEN CHOOSE k \in i..(Len(str) - 1) :
             At(str, k) = "}" /\ \A j \in i..(k - 1) : At(str, j) # "}"
    ELSE Len(str)

\* "coordinates {" is at p of an \addplot line, the list behind it is not
\* empty, and its closing "}" is followed by a ";", directly (direct) or
\* after other text
SplitAt(str, p, direct) ==
    /\ starts_at(str, "\\addplot", Lead(str))
    /\ p >= Lead(str) + Len("\\addplot")
    /\ starts_at(str, "coordinates {", p)
    /\ \E c \in {Closing(str, p + Len("coordinates {"))} :
           /\ c > p + Len("coordinates {")
           /\ c < Len(str)
           /\ IF direct THEN At(str, c + 1) = ";"
              ELSE \E k \in (c + 1)..(Len(str) - 1) : At(str, k) = ";"

\* an \addplot ... coordinates {...}; line
IsAddplotLine(str, direct) == \E p \in 0..Len(str) : SplitAt(str, p, direct)

\* new is old with another coordinate list: the text of old up to its last
\* "coordinates {" and from the closing "}" on is in new, all of it (exact)
\* or with the blanks before \addplot replaced by the indent
SameButCoordinates(old, new, indent, direct, exact) ==
    \E p \in 0..Len(old) :
        /\ SplitAt(old, p, direct)
        /\ \A q \in (p + 1)..Len(old) : ~SplitAt(old, q, direct)
        /\ \E keep \in {p + Len("coordinates {")} :
           \E c \in {Closing(old, keep)} :
           \E before \in {IF exact THEN substr_n(old, 0, keep)
                          ELSE spaces(indent)
                                   \o substr_n(old, Lead(old), keep - Lead(old))} :
               /\ starts_at(new, before, 0)
               /\ EndsWith(new, substr(old, c))
               /\ Len(new) >= Len(before) + (Len(old) - c)

\* a fresh line \addplot coordinates { ... };
IsFreshAddplot(str) ==
    /\ starts_at(str, "\\addplot coordinates {", Lead(str))
    /\ EndsWith(str, " };")

\* a PLOT directive is dispatched and its processor returns
PlotDone == SpliceOf("PLOT")

\* what C8 says of the step, b the line after the directive
PlotEffect(exact) ==
    \E b \in {Last(log').begin} :
    \E indent \in {Lead(line(m_lines, b - 1))} :
        IF b < Len(m_lines) /\ IsAddplotLine(line(m_lines, b), FALSE)
        THEN /\ Len(m_lines') = Len(m_lines)
             /\ \A i \in 0..(Len(m_lines) - 1) :
                    i # b => line(m_lines', i) = line(m_lines, i)
             /\ SameButCoordinates(line(m_lines, b), line(m_lines', b), indent,
                                   FALSE, exact)
        ELSE /\ Len(m_lines') = Len(m_lines) + 1
             /\ SubSeq(m_lines', 1, b) = SubSeq(m_lines, 1, b)
             /\ SubSeq(m_lines', b + 2, Len(m_lines'))
                    = SubSeq(m_lines, b + 1, Len(m_lines))
             /\ IsFreshAddplot(line(m_lines', b))

\* C8, as it is written: PLOT inserts one \addplot line and removes none, or
\* replaces the \addplot line after the directive, in which only the
\* coordinate list changes
C8_PlotOnlyCoordinates == [][PlotDone => PlotEffect(TRUE)]_vars

\* C8, corrected: in the replaced line the text from \addplot to
\* "coordinates {" and from the closing "}" on is kept, and the blanks before
\* \addplot are replaced by the indent of the directive
C8_PlotReindents == [][PlotDone => PlotEffect(FALSE)]_vars

\* PLOT has replaced an \addplot line that carried a style and trailing text
C8_StyledReplaced ==
    /\ pc = "scan"
    /\ runs = 1
    /\ Len(log) = 1
    /\ log[1].what = "Replace"
    /\ log[1].desc = "PLOT"
    /\ EndsWith(line(m_lines, log[1].begin), "} node {n}; % s")

\* the rows MULTIPLOT does not skip: neither x nor y is NULL
Kept(rows) == SelectSeq(rows, LAMBDA r : ~r[2].isnull /\ ~r[3].isnull)

\* the rows at which a maximal run of rows with the same g begins
RunHeads(rows) ==
    { i \in 1..Len(Kept(rows)) :
          i = 1 \/ Kept(rows)[i][1].text # Kept(rows)[i - 1][1].text }

\* the value of g in the k-th run
RunValue(rows, k) ==
    LET i == CHOOSE h \in RunHeads(rows) :
                 Cardinality({j \in RunHeads(rows) : j <= h}) = k
    IN  Kept(rows)[i][1].text

\* MULTIPLOT was dispatched: its processor spliced, or its assertion failed
MultiplotCalled ==
    /\ pc = "scan"
    /\ Len(log') = Len(log) + 1
    /\ \/ Last(log').desc = "MULTIPLOT"
       \/ Last(log').what = "assert"

\* C9: the groups MULTIPLOT(g) collects, and their legends, are the maximal
\* runs of rows with the same g among the rows that are not skipped, in
\* the order of the result
C9_GroupsAreRuns ==
    [][MultiplotCalled =>
           LET g == multiplot_groups(SqlQuery(table, QueryAll),
                                     multiplot_fields("g"))
               n == Cardinality(RunHeads(table))
           IN  /\ Len(g.coordlist) = n
               /\ Len(g.legendlist) = n
               /\ \A k \in 1..n :
                      g.legendlist[k] = "g=" \o escape_latex(RunValue(table, k))
      ]_vars

\* an \addlegendentry{...}; line
IsLegendLine(str) ==
    /\ starts_at(str, "\\addlegendentry{", Lead(str))
    /\ \E q \in (Lead(str) + Len("\\addlegendentry{"))..Len(str) :
           starts_at(str, "};", q)

\* the text of a legend line from its last "};" on
LegendTail(str) ==
    substr(str, CHOOSE q \in 0..Len(str) :
                    /\ starts_at(str, "};", q)
                    /\ \A r \in (q + 1)..Len(str) : ~starts_at(str, "};", r))

\* the entries that follow line pos: the index of each \addplot line and of
\* its \addlegendentry line, -1 when it has none
RECURSIVE Entries(_, _)
Entries(lines, pos) ==
    IF pos < Len(lines) /\ IsAddplotLine(line(lines, pos), TRUE)
    THEN IF pos + 1 < Len(lines) /\ IsLegendLine(line(lines, pos + 1))
         THEN <<[plot |-> pos, legend |-> pos + 1]>> \o Entries(lines, pos + 2)
         ELSE <<[plot |-> pos, legend |-> -1]>> \o Entries(lines, pos + 1)
    ELSE <<>>

\* a MULTIPLOT directive is dispatched and its processor returns
MultiplotDone == SpliceOf("MULTIPLOT")

\* the line after the last of the entries, b when there is none
EntriesEnd(entries, b) ==
    IF Len(entries) = 0 THEN b
    ELSE IF Last(entries).legend >= 0 THEN Last(entries).legend + 1
    ELSE Last(entries).plot + 1

\* what C10 says of the step, b the line after the directive, n the groups
MultiplotEffect(exact) ==
    \E b \in {Last(log').begin} :
    \E indent \in {Lead(line(m_lines, b - 1))} :
    \E old \in {Entries(m_lines, b)} :
    \E new \in {Entries(m_lines', b)} :
    \E old_end \in {EntriesEnd(old, b)} :
    \E n \in {Cardinality(RunHeads(table))} :
        /\ Len(m_lines') = Len(m_lines) - (old_end - b) + 2 * n
        /\ SubSeq(m_lines', 1, b) = SubSeq(m_lines, 1, b)
        /\ SubSeq(m_lines', b + 2 * n + 1, Len(m_lines'))
               = SubSeq(m_lines, old_end + 1, Len(m_lines))
        /\ Len(new) = n
        /\ \A k \in 1..n :
               /\ new[k] = [plot |-> b + 2 * k - 2, legend |-> b + 2 * k - 1]
               /\ starts_at(line(m_lines', b + 2 * k - 1),
                      "\\addlegendentry{g=" \o escape_latex(RunValue(table, k))
                          \o "};",
                      Lead(line(m_lines', b + 2 * k - 1)))
               /\ k <= Len(old) =>
                      /\ SameButCoordinates(line(m_lines, old[k].plot),
                             line(m_lines', b + 2 * k - 2), indent, TRUE, exact)
                      /\ old[k].legend >= 0 =>
                             EndsWith(line(m_lines', b + 2 * k - 1),
                                 LegendTail(line(m_lines, old[k].legend)))

FirstMarkerFrom(lines, b, keyword) ==
    IF \E i \in b..(Len(lines) - 1) : re_endtabular(line(lines, i), keyword)
    THEN CHOOSE i \in b..(Len(lines) - 1) :
             /\ re_endtabular(line(lines, i), keyword)
             /\ \A j \in b..(i - 1) : ~re_endtabular(line(lines, j), keyword)
    ELSE -1

\* a line holds the row terminator, two backslashes
HasTerminator(str) == find(str, "\\\\", 0) # npos

\* the text behind the first row terminator of a line
AfterTerminator(str) == substr(str, find(str, "\\\\", 0) + 2)

\* the lines of [b, e) that are rows, in order
OldRows(lines, b, e) ==
    SelectSeq([j \in 1..(e - b) |-> b + j - 1],
              LAMBDA i : HasTerminator(line(lines, i)))

\* the lines of [b, e) before the first that is no row
LeadingRows(lines, b, e) ==
    SelectSeq([j \in 1..(e - b) |-> b + j - 1],
              LAMBDA i : \A h \in b..i : HasTerminator(line(lines, h)))

TabularDone == SpliceOf("TABULAR")

\* what C11 says of the step, b the line after the directive, e the END
\* marker of the old block, n the rows of the result; as it is written
\* every old row passes its decoration on, corrected only the old lines
\* before the first that is no row
TabularEffect(exact) ==
    \E b \in {Last(log').begin}, n \in {Len(table)} :
    \E c \in {FirstCommentFrom(m_lines, b)} :
    \E e \in {IF exact THEN FirstMarkerFrom(m_lines, b, "TABULAR")
              ELSE IF c >= 0 /\ re_endtabular(line(m_lines, c), "TABULAR")
              THEN c ELSE -1} :
        IF e >= 0
        THEN \E old \in {IF exact THEN OldRows(m_lines, b, e)
                         ELSE LeadingRows(m_lines, b, e)} :
                 /\ Len(m_lines') = Len(m_lines) - (e + 1 - b) + n + 1
                 /\ SubSeq(m_lines', 1, b) = SubSeq(m_lines, 1, b)
                 /\ SubSeq(m_lines', b + n + 2, Len(m_lines'))
                        = SubSeq(m_lines, e + 2, Len(m_lines))
                 /\ re_endtabular(line(m_lines', b + n), "TABULAR")
                 /\ \A i \in 1..n :
                        \E new \in {line(m_lines', b + i - 1)} :
                            /\ HasTerminator(new)
                            /\ i <= Len(old) =>
                                   AfterTerminator(new)
                                       = AfterTerminator(line(m_lines, old[i]))
                            /\ (~exact /\ i > Len(old)) =>
                                   AfterTerminator(new) = ""
        ELSE exact \/ (/\ Len(m_lines') = Len(m_lines) + n + 1
                       /\ SubSeq(m_lines', 1, b) = SubSeq(m_lines, 1, b)
                       /\ SubSeq(m_lines', b + n + 2, Len(m_lines'))
                              = SubSeq(m_lines, b + 1, Len(m_lines)))

DefmacroDone == SpliceOf("DEFMACRO")

\* C12: DEFMACRO run again over its own output with the same result of one
\* row replaces the \def lines it wrote and leaves the document as it is,
\* whatever the cells of the row hold
C12_DefmacroRerunUnchanged ==
    [][(DefmacroDone /\ runs > 1 /\ ~grown /\ Len(table) = 1)
           => m_lines' = m_lines]_vars

\* DEFMACRO is dispatched with a statement the database answers
DefmacroCalled ==
    /\ pc = "scan"
    /\ Len(log') = Len(log) + 1
    /\ cc.ok
    /\ first_word(cc.cmd) = "DEFMACRO"
    /\ SqlQuery(table, argument(cc.cmd)).ok

\* C13: DEFMACRO ends the run in a fatal error and leaves the buffer as it
\* was when the result has no row or more than one row, and with one row it
\* writes one definition line for each column of the result
C13_DefmacroNeedsOneRow ==
    [][DefmacroCalled =>
           IF Len(table) = 1
           THEN /\ pc' = "scan"
                /\ \A i \in 0..(num_cols(SqlQuery(table, argument(cc.cmd))) - 1) :
                       starts_at(line(m_lines', cc.ln + i), "\\def\\",
                                 skip_blank(line(m_lines', cc.ln + i), 0))
                /\ ~re_defmacro(line(m_lines',
                       cc.ln + num_cols(SqlQuery(table, argument(cc.cmd)))))
           ELSE pc' = "failed" /\ m_lines' = m_lines]_vars

\* the command opens or closes a range of the name
IsRangeCommand(cmd, word, name) == cmd = "RANGE " \o word \o " " \o name

\* the flag after a step of the scan over the command c
RangeFlagStep(c) ==
    /\ gopt_ranges = {} => active_range'
    /\ (active_range' /\ ~active_range) =>
           \E name \in gopt_ranges :
               c.ok /\ IsRangeCommand(c.cmd, "BEGIN", name)
    /\ (~active_range' /\ active_range) =>
           \E name \in gopt_ranges :
               c.ok /\ IsRangeCommand(c.cmd, "END", name)
    /\ \A name \in gopt_ranges :
           /\ (c.ok /\ IsRangeCommand(c.cmd, "BEGIN", name)) => active_range'
           /\ (c.ok /\ IsRangeCommand(c.cmd, "END", name)) => ~active_range'

\* C14: with no range selected the flag is true during the whole scan; with
\* a range selected the flag starts false, becomes true exactly at a RANGE
\* BEGIN and false exactly at a RANGE END of a selected name; while the flag
\* is false a command that is no RANGE runs no query and leaves the line
\* buffer, the messages and the connection as they are
C14_RangeGuard ==
    [][/\ (pc = "start" /\ pc' = "scan") =>
              active_range' = (gopt_ranges = {})
       /\ (pc = "scan" /\ ln < Len(m_lines)) =>
              \E c \in {cc} :
                  /\ RangeFlagStep(c)
                  /\ (~active_range /\ ~(c.ok /\ first_word(c.cmd) = "RANGE")) =>
                         /\ m_lines' = m_lines
                         /\ log' = log
                         /\ g_db' = g_db
                         /\ pc' = "scan"]_vars

\* a PLOT before the range was skipped, the TEXTTABLE in the range was
\* processed, and the range is closed again
C14_RangeClosed ==
    /\ pc = "scan"
    /\ gopt_ranges = {"r"}
    /\ ~active_range
    /\ Len(log) = 1
    /\ log[1].desc = "TEXTTABLE"
    /\ log[1].begin = 3

\* the line is a CONNECT command at the left margin
IsConnectLine(str) == starts_at(str, "% CONNECT ", 0)

\* the database the last CONNECT line before the line upto names, the
\* database of the command line when there is none
RECURSIVE ConnectedBefore(_, _)
ConnectedBefore(lines, upto) ==
    IF upto <= 0 THEN MainDb
    ELSE IF IsConnectLine(line(lines, upto - 1))
    THEN substr(line(lines, upto - 1),
                find(line(lines, upto - 1), ":", 0) + 1)
    ELSE ConnectedBefore(lines, upto - 1)

\* the CONNECT arguments that name an engine and a database that opens
Connectable == {"SQLite:b"}

\* the rows of the table t in a database
RowsIn(db) == IF db = MainDb THEN table ELSE OtherTable

\* C15: every iteration of the scan moves the cursor forward, so commands
\* are dispatched in increasing document order and none twice in a pass; the
\* connection changes at a CONNECT alone; a CONNECT that opens a database
\* makes it the connection and the scan goes on, a CONNECT that opens none
\* ends the run with an error and leaves the buffer as it is; with every
\* command dispatched, a PLOT splices the rows of the database that the last
\* CONNECT before it names
C15_ConnectInOrder ==
    [][(pc = "scan" /\ ln < Len(m_lines) /\ Len(m_lines) < MaxLines) =>
           \E c \in {cc} :
               /\ ln' > ln
               /\ g_db' # g_db =>
                      c.ok /\ first_word(c.cmd) = "CONNECT" /\ active_range
               /\ (c.ok /\ first_word(c.cmd) = "CONNECT" /\ active_range) =>
                      /\ m_lines' = m_lines
                      /\ IF argument(c.cmd) \in Connectable
                         THEN /\ pc' = "scan"
                              /\ g_db' = ConnectedBefore(m_lines, c.ln)
                              /\ log' = log
                         ELSE pc' = "failed"
               /\ (SpliceOf("PLOT") /\ gopt_ranges = {}) =>
                      m_lines' = plot(m_lines,
                                      RowsIn(ConnectedBefore(m_lines, ln)),
                                      c.ln, c.indent, argument(c.cmd)).lines]_vars

\* a PLOT ran on the database of the command line, the CONNECT opened the
\* database b, and the PLOT behind it spliced the row of b
C15_SecondDatabase ==
    /\ pc = "scan"
    /\ g_db = "b"
    /\ Len(table) = 1
    /\ Len(log) = 2
    /\ log[2].desc = "PLOT"
    /\ find(line(m_lines, log[2].begin), "(C,8,9)", 0) # npos
    /\ find(line(m_lines, 1), "(C,8,9)", 0) = npos

\* the elements of a sequence
Range(seq) == { seq[i] : i \in 1..Len(seq) }

\* the result of the MULTIPLOT command holds x, y, every group column and
\* the title or ptitle column its mark asks for
MultiplotColumns(cmdline) ==
    \E f \in {multiplot_fields(re_multiplot(cmdline).m1)} :
        \E sql \in {SqlQuery(g_db_rows,
                        replace_all(re_multiplot(cmdline).m2, "MULTIPLOT",
                                    f.multiplot))} :
            /\ \A name \in {"x", "y"} \cup Range(f.fields) :
                   name \in Range(sql.cols)
            /\ f.title_mark => "title" \in Range(sql.cols)
            /\ f.ptitle_mark => "ptitle" \in Range(sql.cols)

\* C16: a MULTIPLOT whose result lacks x, y, a group column or the column
\* of its title mark ends the run with an error, and the line buffer is as
\* it was before the command
C16_MultiplotMissingColumn ==
    [][(pc = "scan" /\ ln < Len(m_lines) /\ active_range) =>
           \E c \in {cc} :
               (/\ c.ok
                /\ first_word(c.cmd) = "MULTIPLOT"
                /\ re_multiplot(c.cmd).ok
                /\ ~MultiplotColumns(c.cmd)) =>
                   /\ pc' = "failed"
                   /\ m_lines' = m_lines
                   /\ Len(log') = Len(log) + 1
                   /\ Last(log').what = "error"]_vars

\* a MULTIPLOT(g|title) on a result with x and y and without title failed
\* in front of the old plot
C16_TitleMissing ==
    /\ pc = "failed"
    /\ Len(log) = 1
    /\ log[1].what = "error"
    /\ Len(table) = 2
    /\ line(m_lines, 0) = "% MULTIPLOT(g|title) " \o QueryAll
    /\ line(m_lines, 2) = "\\addlegendentry{old};"

\* C17: after one or more calls of read_complete() on a query that was not
\* stepped before, the cache holds the rows of the result, in order, every
\* cell with its NULL flag and its text; a call on a complete cache fetches
\* nothing and leaves the cache as it is; num_rows() is the number of rows
\* of the result
C17_CacheIsResult ==
    /\ [](/\ (sqlq # NoQuery /\ sqlq.calls > 0 /\ sqlq.steps = 0) =>
                 /\ sqlq.m_complete
                 /\ sqlq.m_table = sqlq.result
          /\ (sqlq # NoQuery /\ sqlq.steps = 0 /\ sqlq.rows_seen # -1) =>
                 sqlq.rows_seen = Len(sqlq.result))
    /\ [][(sqlq.m_complete /\ sqlq'.calls = sqlq.calls + 1) =>
              /\ sqlq'.m_table = sqlq.m_table
              /\ sqlq'.fetches = sqlq.fetches]_vars

\* the data blocks finished in the first n lines of a datafile: the runs
\* of two or more empty lines
BlocksFinished(datafile, n) ==
    Cardinality({ i \in 1..(n - 1) :
                      /\ datafile[i] = ""
                      /\ datafile[i + 1] = ""
                      /\ (i = 1 \/ datafile[i - 1] # "") })

\* the line of a datafile announces the dataset of a MULTIPLOT group
IsIndexLine(str) == is_prefix(str, "# index ")

\* the number of an index line
IndexOf(str) == substr_n(str, 8, find(str, " ", 8) - 8)

\* C18: during the scan of one script the counter of the datasets never
\* decreases; the dataset of a PLOT and every group of a MULTIPLOT gets the
\* value of the counter, which is greater than every index given before and
\* is the number of the data blocks finished in the datafile at that time
C18_IndexCountsBlocks ==
    [][pc = "scan" =>
           /\ g_dataindex' >= g_dataindex
           /\ SpliceOf("PLOT") =>
                  /\ g_dataindex' = g_dataindex + 1
                  /\ g_dataindex =
                         BlocksFinished(g_datafile', Len(g_datafile') - 2)
           /\ SpliceOf("MULTIPLOT") =>
                  /\ g_dataindex' > g_dataindex
                  /\ \A p \in (Len(g_datafile) + 1)..Len(g_datafile') :
                         IsIndexLine(g_datafile'[p]) =>
                             /\ IndexOf(g_datafile'[p]) =
                                    itoa(BlocksFinished(g_datafile', p - 1))
                             /\ BlocksFinished(g_datafile', p - 1)
                                    >= g_dataindex]_vars

(***************************************************************************)
(* C19: the END marker of TEXTTABLE, TABULAR and TABTABLE                  *)
(***************************************************************************)

\* the keywords whose processors write an END marker
MarkerKeywords == {"TEXTTABLE", "TABULAR", "TABTABLE"}

\* the last line the splice of the step put into the buffer
GeneratedMarker ==
    line(m_lines',
         Last(log').begin + (Len(m_lines') - Len(m_lines))
             + (Last(log').end - Last(log').begin) - 1)

\* the argument without a REFORMAT(...) clause at its start
WithoutClause(arg) ==
    IF is_prefix(arg, "REFORMAT")
    THEN trim(substr(arg, balanced_end(arg, find(arg, "(", 0) + 1, 0) + 1))
    ELSE arg

\* the query a table processor marks: TEXTTABLE the whole argument, TABULAR
\* and TABTABLE the argument without the REFORMAT clause
MarkedQuery(keyword, arg) ==
    IF keyword = "TEXTTABLE" THEN arg ELSE WithoutClause(arg)

\* C19 as stated: the END marker line generated for TEXTTABLE, TABULAR and
\* TABTABLE is the comment prefix, " END <KEYWORD> " and the first 80
\* characters of the original argument of the directive, with "..." appended
\* exactly when the argument was truncated.
C19_MarkerFirst80 ==
    [][\A keyword \in MarkerKeywords :
           SpliceOf(keyword) =>
               \E arg \in {argument(cc.cmd)} :
                   GeneratedMarker =
                       spaces(cc.indent) \o "% END " \o keyword \o " "
                           \o (IF Len(arg) > 80
                               THEN substr_n(arg, 0, 80) \o "..."
                               ELSE arg)]_vars

\* C19 amended: the END marker line is "% END <KEYWORD> " and the argument of
\* the directive, for TABULAR and TABTABLE without its REFORMAT clause; when
\* this text is longer than 80 characters the line holds its first 77
\* characters and "...", so that no marker is longer than 80 characters.
C19_MarkerShortened ==
    [][\A keyword \in MarkerKeywords :
           SpliceOf(keyword) =>
               \E whole \in {"% END " \o keyword \o " "
                                 \o MarkedQuery(keyword, argument(cc.cmd))} :
                   /\ GeneratedMarker =
                          spaces(cc.indent)
                              \o (IF Len(whole) > 80
                                  THEN substr_n(whole, 0, 77) \o "..."
                                  ELSE whole)
                   /\ Len(GeneratedMarker) <= cc.indent + 80]_vars

\* a run has cut the markers of a query of 67 and of a query of 87 characters,
\* one of them behind a REFORMAT clause
C19_MarkerCut ==
    \/ /\ pc = "finished"
       /\ \E i \in 0..(Len(m_lines) - 1) :
              line(m_lines, i)
                  = substr_n("% END TABTABLE " \o QueryLong, 0, 77) \o "..."
    \/ /\ pc = "finished"
       /\ \E i \in 0..(Len(m_lines) - 1) :
              line(m_lines, i)
                  = "  " \o substr_n("% END TABULAR " \o QueryWhere, 0, 77)
                        \o "..."


(***************************************************************************)
(* C20: the precedence of the formats of a cell                            *)
(***************************************************************************)

\* the fields of a format, and the field a setting of the clause sets
FormatFields ==
    {"rounding", "precision", "width", "digits", "grouping", "min", "max"}

FieldOf(setting) ==
    LET key == parse_keyword(setting, 0).key
    IN  IF key \in {"floor", "ceil", "round"} THEN "rounding"
        ELSE IF key = "group" THEN "grouping"
        ELSE key

\* the format of the fields taken field by field from three formats
Chosen(from) ==
    [m_escape |-> FALSE,
     m_round |-> from["rounding"].m_round,
     m_round_digits |-> from["rounding"].m_round_digits,
     m_reformat_precision |-> from["precision"].m_reformat_precision,
     m_reformat_width |-> from["width"].m_reformat_width,
     m_reformat_digits |-> from["digits"].m_reformat_digits,
     m_grouping |-> from["grouping"].m_grouping,
     m_min_format |-> from["min"].m_min_format,
     m_min_value |-> from["min"].m_min_value,
     m_min_text |-> from["min"].m_min_text,
     m_max_format |-> from["max"].m_max_format,
     m_max_value |-> from["max"].m_max_value,
     m_max_text |-> from["max"].m_max_text]

\* column > row > default: every field from the format of column 0 when the
\* cell is in column 0 and the column format sets the field, else from the
\* format of row 0 when the cell is in row 0 and the row format sets it,
\* else from the default format
Precedence ==
    Chosen([field \in FormatFields |->
               IF rf.col = 0 /\ rf.colset # "" /\ FieldOf(rf.colset) = field
               THEN rf.reformat.m_colfmt[0]
               ELSE IF rf.row = 0 /\ rf.rowset # ""
                       /\ FieldOf(rf.rowset) = field
               THEN rf.reformat.m_rowfmt[0]
               ELSE rf.reformat.m_fmt])

\* the cell that was formatted holds a number
FormattedNumber ==
    /\ rf.pc = "done"
    /\ from_str_double(text(rf.sql, rf.row, rf.col)).ok

\* C20: REFORMAT override precedence is column > row > default: when a row
\* override and a column override both set the same format field (rounding,
\* precision, width, digits, grouping, min/max style) for a cell, the value
\* of the column is the one used, and a field set by neither is taken from
\* the default format.
C20_ColumnOverRowOverDefault ==
    FormattedNumber =>
        \E in_text \in {text(rf.sql, rf.row, rf.col)} :
            rf.out = format_number(Precedence,
                                   from_str_double(in_text).value,
                                   in_text).text


(***************************************************************************)
(* C21: the highlight of the minimum and the maximum                       *)
(***************************************************************************)

\* the styles that highlight
HighlightStyles == {"MF_BOLD", "MF_EMPH"}

\* the text is the recorded minimum or maximum text of the row or column
\* format, and that format has the matching highlight style
Extremal(linefmt, in_text) ==
    \/ in_text = linefmt.m_min_text /\ linefmt.m_min_format \in HighlightStyles
    \/ in_text = linefmt.m_max_text /\ linefmt.m_max_format \in HighlightStyles

\* the text is wrapped in \textbf{} or \emph{}
Wrapped(str) ==
    /\ is_prefix(str, "\\textbf{") \/ is_prefix(str, "\\emph{")
    /\ is_suffix(str, "}")

\* C21: format(row, col, text) wraps a numeric cell in \textbf{} or \emph{}
\* whenever its original text equals the recorded minimum or maximum text of
\* its row and that row has the matching highlight style, or equals the
\* recorded minimum or maximum text of its column and that column has the
\* matching highlight style, also when both the row and the column of the
\* cell carry a highlight style.
C21_HighlightRowOrColumn ==
    FormattedNumber =>
        \E in_text \in {text(rf.sql, rf.row, rf.col)} :
            (\/ Extremal(rf.reformat.m_rowfmt[rf.row], in_text)
             \/ Extremal(rf.reformat.m_colfmt[rf.col], in_text))
                => Wrapped(rf.out)


(***************************************************************************)
(* C22: the minimum and the maximum that prepare() records                 *)
(***************************************************************************)

\* the Reformat is prepared
Prepared == rf.pc \in {"format", "done"}

\* the texts of row n and of column n of the result, in scan order
RowTexts(n) == [j \in 1..num_cols(rf.sql) |-> text(rf.sql, n, j - 1)]
ColTexts(n) == [i \in 1..num_rows(rf.sql) |-> text(rf.sql, i - 1, n)]

\* the places of a line whose text parses as a number
Numbers(texts) == {k \in 1..Len(texts) : from_str_double(texts[k]).ok}
ValueAt(texts, k) == from_str_double(texts[k]).value

\* the first place of a line that holds its least, its greatest number
FirstLeast(texts) ==
    CHOOSE k \in Numbers(texts) :
        /\ \A m \in Numbers(texts) : ValueAt(texts, k) <= ValueAt(texts, m)
        /\ \A m \in Numbers(texts) :
               m < k => ValueAt(texts, m) > ValueAt(texts, k)
FirstGreatest(texts) ==
    CHOOSE k \in Numbers(texts) :
        /\ \A m \in Numbers(texts) : ValueAt(texts, k) >= ValueAt(texts, m)
        /\ \A m \in Numbers(texts) :
               m < k => ValueAt(texts, m) < ValueAt(texts, k)

\* the format of a line is tracked: it or the default format has a style
Tracked(linefmt) ==
    Line_readdata(linefmt) \/ Line_readdata(rf.reformat.m_fmt)

\* what C22 says of the format of a line with the given texts
ExtremaRecorded(linefmt, texts) ==
    (Tracked(linefmt) /\ Numbers(texts) # {}) =>
        /\ linefmt.m_min_value = ValueAt(texts, FirstLeast(texts))
        /\ linefmt.m_min_text = texts[FirstLeast(texts)]
        /\ linefmt.m_max_value = ValueAt(texts, FirstGreatest(texts))
        /\ linefmt.m_max_text = texts[FirstGreatest(texts)]

\* C22: after prepare() on a cached result, for every row and every column
\* that is tracked for highlighting, the recorded minimum (maximum) value is
\* the minimum (maximum) over all cells of that row or column that parse as
\* a number, for any sign of the values (all-negative and all-zero lines
\* included), and the recorded text is the original text of the first cell
\* in scan order attaining it.
C22_ExtremaOfEveryLine ==
    Prepared =>
        /\ \A i \in 0..(num_rows(rf.sql) - 1) :
               ExtremaRecorded(rf.reformat.m_rowfmt[i], RowTexts(i))
        /\ \A j \in 0..(num_cols(rf.sql) - 1) :
               ExtremaRecorded(rf.reformat.m_colfmt[j], ColTexts(j))


(***************************************************************************)
(* C23: the grouping of the thousands                                      *)
(***************************************************************************)

\* the cell "1234567" was formatted under a clause that holds nothing but
\* the given default format
OnlyDefault(setting, in_text) ==
    /\ FormattedNumber
    /\ rf.rowset = "" /\ rf.colset = "" /\ rf.defset = setting
    /\ text(rf.sql, rf.row, rf.col) = in_text

\* C23: with the REFORMAT key group the value 1234567 is rendered as
\* 1,234,567, and with group==. it is rendered as 1.234.567.
C23_GroupingExamples ==
    /\ OnlyDefault("group", "1234567") => rf.out = "1,234,567"
    /\ OnlyDefault("group==.", "1234567") => rf.out = "1.234.567"


(***************************************************************************)
(* C24: the digits mode                                                    *)
(***************************************************************************)

\* the digits modes that are implemented, and two that are not
DigitsModes == {<<"digits=2", 2>>, <<"digits=3", 3>>, <<"digits=4", 4>>}
OtherDigits == {"digits=5", "digits=-1"}

\* the count of the digits of a rendered number, from its first digit that
\* is not 0 on
FirstNonZero(str, i) ==
    CHOOSE k \in i..Len(str) :
        /\ k = Len(str) \/ (isdigit(At(str, k)) /\ At(str, k) # "0")
        /\ \A m \in i..(k - 1) : ~(isdigit(At(str, m)) /\ At(str, m) # "0")
SignificantDigits(str) ==
    Cardinality({k \in FirstNonZero(str, 0)..(Len(str) - 1) :
                    isdigit(At(str, k))})

\* a number cell was handed to format() under a clause that holds nothing
\* but the given default format
DefaultAlone(setting) ==
    /\ rf.pc \in {"done", "failed"}
    /\ rf.reformat.thrown = FALSE
    /\ rf.rowset = "" /\ rf.colset = "" /\ rf.defset = setting
    /\ from_str_double(text(rf.sql, rf.row, rf.col)).ok

\* the four examples of digits=3
DigitsExamples ==
    /\ OnlyDefault("digits=3", "0.5") => rf.out = "0.500"
    /\ OnlyDefault("digits=3", "5") => rf.out = "5.00"
    /\ OnlyDefault("digits=3", "50") => rf.out = "50.0"
    /\ OnlyDefault("digits=3", "500") => rf.out = "500"

\* every value that is not 0 and has no more than N digits before the point
\* is rendered with N significant digits
DigitsPadded ==
    \A mode \in DigitsModes :
        \E v \in {from_str_double(text(rf.sql, rf.row, rf.col)).value} :
            (/\ DefaultAlone(mode[1])
             /\ v # 0 /\ v < pow10(mode[2]) * Scale
             /\ -v < pow10(mode[2]) * Scale)
                => /\ rf.pc = "done"
                   /\ SignificantDigits(rf.out) = mode[2]

\* any other N is a fatal error
DigitsOtherFatal ==
    \A setting \in OtherDigits : DefaultAlone(setting) => rf.pc = "failed"

\* C24: with digits=3 the values 0.5, 5, 50 and 500 are rendered as 0.500,
\* 5.00, 50.0 and 500; for digits=N with N in {2,3,4} the number of decimals
\* is chosen from the magnitude of the value so that every rendered value is
\* padded to the same count of N significant digits, and any other N is a
\* fatal error.
C24_DigitsMode == DigitsExamples /\ DigitsPadded /\ DigitsOtherFatal


(***************************************************************************)
(* C25: malformed REFORMAT clauses                                         *)
(***************************************************************************)

\* the formats that the parser of a key rejects: an unknown key, a value
\* that is no number, a style that is none
RejectedSettings == {"bogus", "precision=x", "max=red"}

\* the formats with a value that the grammar does not allow
InvalidSettings == RejectedSettings \cup {"digits=5"}

\* the argument of the command holds a clause of the given kind
HasSetting(settings) ==
    /\ rf.cmdline = FormatQuery(rf.rowset, rf.colset, rf.defset, rf.colfirst)
    /\ \/ rf.rowset \in settings
       \/ rf.colset \in settings
       \/ rf.defset \in settings
OddClause == rf.cmdline \in NoParentheses \cup Unbalanced \cup InvalidRanges
WellFormed ==
    /\ rf.cmdline = FormatQuery(rf.rowset, rf.colset, rf.defset, rf.colfirst)
    /\ {rf.rowset, rf.colset, rf.defset} \cap InvalidSettings = {}

\* the run ended with the fatal error of parse_query(), no query executed
FatalBeforeQuery ==
    /\ rf.pc = "failed"
    /\ rf.reformat.thrown
    /\ rf.executed = NotExecuted
    /\ rf.out = ""

\* the clause was parsed
ParseDone == rf.pc # "parse"

\* what C25 says of the arguments without a clause and of those with a
\* well-formed clause
ClauseRemoved ==
    /\ (ParseDone /\ rf.cmdline \in PlainQueries)
           => /\ rf.pc # "failed"
              /\ rf.query = rf.cmdline
              /\ rf.executed \in {NotExecuted, <<rf.cmdline>>}
    /\ (ParseDone /\ WellFormed)
           => /\ ~rf.reformat.thrown
              /\ rf.query = QueryAll
              /\ rf.executed \in {NotExecuted, <<QueryAll>>}

Statements(stmt) ==
    {i \in 1..Len(imp.executed) : imp.executed[i].stmt = stmt}
FirstOf(places) == CHOOSE i \in places : \A k \in places : i <= k
LastOf(places) == CHOOSE i \in places : \A k \in places : i >= k

\* the statement at the place failed, it is the last one executed and
\* create_table() has thrown
FailedFatal(i) ==
    /\ ~imp.executed[i].ok
    /\ i = Len(imp.executed)
    /\ imp.pc = "failed"

\* a second CREATE TABLE follows a failed first one on MySQL with exactly
\* one DROP TABLE, which succeeded, between them
SecondAfterDrop ==
    Cardinality(Statements("CREATE")) = 2 =>
        /\ imp.type = "DB_MYSQL"
        /\ ~imp.executed[FirstOf(Statements("CREATE"))].ok
        /\ Statements("DROP") = {FirstOf(Statements("CREATE")) + 1}
        /\ imp.executed[FirstOf(Statements("CREATE")) + 1].ok
        /\ LastOf(Statements("CREATE")) = FirstOf(Statements("CREATE")) + 2

\* on the other databases a failed first CREATE TABLE ends create_table()
FirstFailurePropagates ==
    (/\ imp.type # "DB_MYSQL"
     /\ Statements("CREATE") # {}
     /\ ~imp.executed[FirstOf(Statements("CREATE"))].ok)
        => FailedFatal(FirstOf(Statements("CREATE")))

\* a failed second CREATE TABLE ends create_table()
SecondFailureFatal ==
    (/\ Cardinality(Statements("CREATE")) = 2
     /\ ~imp.executed[LastOf(Statements("CREATE"))].ok)
        => FailedFatal(LastOf(Statements("CREATE")))

\* C26: create_table issues the CREATE TABLE statement at most twice: a
\* second attempt happens only after the first attempt failed on MySQL, the
\* backend that cannot enumerate temporary tables, and one DROP TABLE was
\* executed; on the other backends the first failure propagates without a
\* DROP or retry, and a failure of the second attempt is fatal without any
\* further retry.
C26_CreateAtMostTwice ==
    /\ Cardinality(Statements("CREATE")) <= 2
    /\ SecondAfterDrop
    /\ FirstFailurePropagates
    /\ SecondFailureFatal

\* the second CREATE TABLE on MySQL has failed
C26_SecondFailed ==
    /\ imp.type = "DB_MYSQL"
    /\ Len(imp.executed) = 3
    /\ imp.executed[3] = Executed("CREATE", FALSE)
    /\ imp.pc = "failed"


(***************************************************************************)
(* C27: the column types of the FieldSet                                   *)
(***************************************************************************)

\* the calls of add_field for a key, and the types detected in them
CallsOf(key) == {i \in 1..Len(imp.added) : imp.added[i].key = key}
TypesOf(key) == {imp.added[i].type : i \in CallsOf(key)}

\* the most general type of a set of types: VARCHAR over DOUBLE over INTEGER
MostGeneral(types) == CHOOSE t \in types : \A u \in types : t <= u

\* the type the field set holds for a key
HeldType(fieldset, key) == fieldset[field_index(fieldset, key)].second

\* every key that was added has one entry, with the most general type
\* detected among its values
HoldsMostGeneral ==
    \A key \in ImpKeys :
        /\ Cardinality({i \in 1..Len(imp.m_fieldset) :
                           imp.m_fieldset[i].first = key})
               = (IF CallsOf(key) = {} THEN 0 ELSE 1)
        /\ CallsOf(key) # {}
               => HeldType(imp.m_fieldset, key) = MostGeneral(TypesOf(key))

\* the entries are in the order of the first calls for their keys
FirstAppearance ==
    \A i, k \in 1..Len(imp.m_fieldset) :
        i < k => FirstOf(CallsOf(imp.m_fieldset[i].first))
                     < FirstOf(CallsOf(imp.m_fieldset[k].first))

\* a step keeps the entries it finds, in their places, and gives none of
\* them a more specific type
NeverNarrowed ==
    /\ Len(imp'.m_fieldset) >= Len(imp.m_fieldset)
    /\ \A i \in 1..Len(imp.m_fieldset) :
           /\ imp'.m_fieldset[i].first = imp.m_fieldset[i].first
           /\ imp'.m_fieldset[i].second <= imp.m_fieldset[i].second

\* C27: for each key, the column type held by FieldSet after any sequence of
\* add_field calls is the most general type detected among all values added
\* for that key (VARCHAR over DOUBLE over INTEGER); the result does not
\* depend on the order of the calls, a type once widened is never narrowed
\* again, and the order of keys is the order of their first appearance.
C27_MostGeneralType ==
    /\ [](HoldsMostGeneral /\ FirstAppearance)
    /\ [][NeverNarrowed]_vars

\* the key a was added as INTEGER, then the key b, then a again as DOUBLE
C27_Widened ==
    /\ Len(imp.added) = 3
    /\ imp.added[1] = [key |-> "a", type |-> T_INTEGER]
    /\ imp.added[2].key = "b"
    /\ imp.added[3] = [key |-> "a", type |-> T_DOUBLE]
    /\ imp.m_fieldset[1] = [first |-> "a", second |-> T_DOUBLE]


(***************************************************************************)
(* C28: the type that detect() gives a text                                *)
(***************************************************************************)

\* the place behind an optional sign at the place
SkipSign(str, i) == IF At(str, i) \in {"+", "-"} THEN i + 1 ELSE i

\* an optional sign followed by one or more digits
IntegerText(str) ==
    /\ skip_digits(str, SkipSign(str, 0)) > SkipSign(str, 0)
    /\ skip_digits(str, SkipSign(str, 0)) = Len(str)

\* an exponent at the place to the end: e or E, an optional sign, one or
\* more digits
ExponentText(str, i) ==
    /\ At(str, i) \in {"e", "E"}
    /\ skip_digits(str, SkipSign(str, i + 1)) > SkipSign(str, i + 1)
    /\ skip_digits(str, SkipSign(str, i + 1)) = Len(str)

\* a signed decimal number with a decimal point at the place dot, at least
\* one digit before or behind it, and an optional exponent
DecimalText(str, first, dot, last) ==
    /\ At(str, dot) = "."
    /\ (dot - first) + (last - (dot + 1)) >= 1
    /\ last = Len(str) \/ ExponentText(str, last)
DoubleText(str) ==
    DecimalText(str, SkipSign(str, 0), skip_digits(str, SkipSign(str, 0)),
                skip_digits(str, skip_digits(str, SkipSign(str, 0)) + 1))

\* the type the claim gives a text
ClaimedType(str) ==
    IF IntegerText(str) THEN T_INTEGER
    ELSE IF DoubleText(str) THEN T_DOUBLE
    ELSE T_VARCHAR

\* add_field was called
FieldAdded == imp.added # <<>>

\* C28: FieldSet::detect returns INTEGER exactly for strings made of an
\* optional sign followed by one or more digits, DOUBLE exactly for strings
\* that are a signed decimal number with a decimal point, at least one digit
\* and an optional exponent, and VARCHAR for every other string (as in the
\* self-test: "1234" is INTEGER, "1234.3" and ".3e-3" are DOUBLE, "1234,3"
\* and "sdfdf" are VARCHAR).
C28_DetectGrammar ==
    FieldAdded => imp.added[Len(imp.added)].type = ClaimedType(imp.value)


(***************************************************************************)
(* C29: what collect_comment() consumes and returns                        *)
(***************************************************************************)

\* the line of the buffer at a place counted from 0
LineAt(k) == m_lines[k + 1]

\* the place of the first character of a line that is no blank
FirstInk(str) ==
    CHOOSE i \in 0..Len(str) :
        /\ \A k \in 0..(i - 1) : At(str, k) \in {" ", "\t"}
        /\ At(str, i) \notin {" ", "\t"}

\* the line is a comment, its comment character is doubled, it carries the
\* doubled marker at the indent
CommentLine(str) == At(str, FirstInk(str)) = comment_char
DoubledLine(str) ==
    /\ CommentLine(str)
    /\ At(str, FirstInk(str) + 1) = comment_char
CarriesMarker(str, indent) == DoubledLine(str) /\ FirstInk(str) = indent

\* the place behind the maximal run of lines after the place from that
\* carry the doubled marker at the indent
RunEnd(from, indent) ==
    CHOOSE e \in (from + 1)..Len(m_lines) :
        /\ \A k \in (from + 1)..(e - 1) : CarriesMarker(LineAt(k), indent)
        /\ e = Len(m_lines) \/ ~CarriesMarker(LineAt(e), indent)

\* the lines from..(to - 1) without their doubled markers, one after the
\* other
RECURSIVE Unmarked(_, _, _)
Unmarked(from, to, indent) ==
    IF from >= to THEN ""
    ELSE substr(LineAt(from), indent + 2) \o Unmarked(from + 1, to, indent)

\* what C29 says of a call at the place from that ended at the place to
CollectedAs(from, to, str) ==
    IF ~CommentLine(str)
    THEN ~collected.ok /\ to = from + 1
    ELSE /\ collected.ok
         /\ collected.indent = FirstInk(str)
         /\ IF ~DoubledLine(str)
            THEN /\ to = from + 1
                 /\ collected.cmd = trim(substr(str, FirstInk(str) + 1))
            ELSE /\ to = RunEnd(from, FirstInk(str))
                 /\ collected.cmd = trim(Unmarked(from, to, FirstInk(str)))

\* C29: collect_comment(ln): on a non-comment line it returns failure and
\* advances ln by exactly one; on a comment line whose comment character is
\* not doubled it consumes exactly that one line; on a line with a doubled
\* comment character it additionally consumes exactly the maximal run of
\* following lines that carry the doubled marker at the same indent, and the
\* returned text is the trimmed concatenation of the consumed lines without
\* their markers, with the returned indent equal to the position of the
\* comment character.
C29_CollectComment ==
    collected # NoComment =>
        CollectedAs(collected.from, ln, LineAt(collected.from))

\* a call took two lines with the doubled marker and left a third line
\* that carries the marker at another indent
C29_RunCollected ==
    /\ collected # NoComment
    /\ collected.ok
    /\ collected.from = 0
    /\ ln = 2
    /\ Len(m_lines) = 3
    /\ DoubledLine(LineAt(2))


(***************************************************************************)
(* C30: the lines a processor generates are no commands                    *)
(***************************************************************************)

\* the line at the cursor was in the file when the pass read it: it is no
\* line that a processor of this pass generated
LineOfInput == line(m_lines, ln) \in Range(disk)

\* C30: no line generated by a directive processor in a pass is itself
\* dispatched as a directive later in the same pass: the scan resumes at the
\* first generated line, and for every query result (cell texts beginning
\* with the comment character included) the generated table rows, plot
\* lines, definitions and END markers are either not comment lines or carry
\* no dispatched keyword, so database content can never cause a further
\* query or splice to be executed.
C30_GeneratedNotDispatched ==
    \A word \in Keywords : Dispatch(word) => LineOfInput

====
